---- MODULE Spec2Model ----
(***************************************************************************)
(* MoodMate backend: the journal-entry handlers (entryController.js), the  *)
(* annotation and semantic-search handlers (aiController.js) and the       *)
(* JournalEntry schema, as a state machine over the entry collection, and   *)
(* the page component of the client (App.jsx) that lists and searches.     *)
(*                                                                         *)
(* Conventions                                                             *)
(*  - A JS string is a sequence of one-character strings.                  *)
(*  - A JS Number is an integer count of 1/Unit: 7.5 is 15 when Unit = 2.  *)
(*  - An optional value (a key that may be undefined) is a set with at     *)
(*    most one element: {} is undefined, {v} is v.                         *)
(*  - The text of a create or analyze body is the empty sequence when it   *)
(*    is falsy (undefined or ""); the text of an update body is optional.  *)
(*  - Every await of a handler ends one step of that handler.              *)
(***************************************************************************)
EXTENDS Integers, Sequences, FiniteSets, TLC

VARIABLES store,   \* the JournalEntry collection: _id -> document
          nextId,  \* the next fresh ObjectId
          reqs,    \* per connection: the request in flight or its response
          app      \* the App component: its state, its timers, what it has sent

vars == <<store, nextId, reqs, app>>

----------------------------------------------------------------------------
(* Bounds *)

MaxEntries == 2

(* Representation of numbers and of days *)

Unit == 2
DayLen == 2

(* Program constants *)

MinScore == 1
MaxScore == 10
DefaultScore == 5
OfflineScore == 5
MaxTags == 5
FallbackBase == 5
HappyMin == 7
NeutralMin == 5
DefaultPage == 1
DefaultLimit == 8
MaxPrefix == 200

----------------------------------------------------------------------------
(* Values *)

None == {}
Some(v) == {v}
The(o) == CHOOSE v \in o : TRUE

Str(s) == [t |-> "str", s |-> s]
Num(n) == [t |-> "num", v |-> n]
JNull == [t |-> "null"]
JObjVal == [t |-> "obj"]
Arr(es) == [t |-> "arr", elems |-> es]

Min2(a, b) == IF a < b THEN a ELSE b
Max2(a, b) == IF a > b THEN a ELSE b

Users == {"u1", "u2"}

T_great == <<"I"," ","h","a","d"," ","a"," ","g","r","e","a","t"," ","d","a","y",
             " ","w","i","t","h"," ","f","r","i","e","n","d","s">>
T_work == <<"w","o","r","k"," ","w","a","s"," ","b","a","d">>
W_work == <<"w","o","r","k">>
W_Work == <<"W","o","r","k">>
W_offline == <<"o","f","f","l","i","n","e">>
W_general == <<"g","e","n","e","r","a","l">>
W_offline_analysis == <<"o","f","f","l","i","n","e","-","a","n","a","l","y","s","i","s">>
W_gym == <<"g","y","m">>
W_trip == <<"t","r","i","p">>
T_happy == <<"H","A","P","P","Y"," ","a","n","d"," ","E","x","c","i","t","e","d">>
T_low == <<"s","a","d"," ","b","a","d"," ","h","a","t","e"," ","t","i","r","e","d"," ","a","n","g","r","y">>
T_high == <<"h","a","p","p","y"," ","g","o","o","d"," ","g","r","e","a","t"," ","l","o","v","e"," ","e","x","c","i","t","e","d">>
T_mixed == <<"G","o","o","d"," ","d","a","y",","," ","b","a","d"," ","n","i","g","h","t">>
T_sadness == <<"a"," ","s","a","d","n","e","s","s">>
T_plain == <<"w","e","n","t"," ","t","o"," ","t","h","e"," ","g","y","m">>

----------------------------------------------------------------------------
(* Strings *)

UpperCase == <<"A","B","C","D","E","F","G","H","I","J","K","L","M",
               "N","O","P","Q","R","S","T","U","V","W","X","Y","Z">>
LowerCase == <<"a","b","c","d","e","f","g","h","i","j","k","l","m",
               "n","o","p","q","r","s","t","u","v","w","x","y","z">>

\* String.prototype.toLowerCase
toLowerCase(s) ==
    [i \in 1 .. Len(s) |->
        IF \E k \in 1 .. Len(UpperCase) : UpperCase[k] = s[i]
        THEN LowerCase[CHOOSE k \in 1 .. Len(UpperCase) : UpperCase[k] = s[i]]
        ELSE s[i]]

\* String.prototype.includes
includes(s, w) ==
    \E i \in 1 .. (Len(s) - Len(w) + 1) : SubSeq(s, i, i + Len(w) - 1) = w

\* { $regex: term, $options: 'i' } for a term made of literal characters and
\* of ".", the pattern that matches any one character
regexMatchI(s, term) ==
    \E i \in 1 .. (Len(s) - Len(term) + 1) :
        \A k \in 1 .. Len(term) :
            term[k] = "." \/ toLowerCase(s)[i + k - 1] = toLowerCase(term)[k]

Digits == <<"0","1","2","3","4","5","6","7","8","9">>
IsDigit(c) == \E k \in 1 .. 10 : Digits[k] = c
DigitVal(c) == (CHOOSE k \in 1 .. 10 : Digits[k] = c) - 1

RECURSIVE DigitsVal(_)
DigitsVal(s) == IF s = <<>> THEN 0
                ELSE 10 * DigitsVal(SubSeq(s, 1, Len(s) - 1)) + DigitVal(s[Len(s)])

RECURSIVE Pow10(_)
Pow10(k) == IF k = 0 THEN 1 ELSE 10 * Pow10(k - 1)

NaN == [nan |-> TRUE, v |-> 0]
Fin(n) == [nan |-> FALSE, v |-> n]

\* StringToNumber of an unsigned decimal literal, in 1/Unit; NaN for other text
UnsignedToNumber(s) ==
    LET dots == {i \in 1 .. Len(s) : s[i] = "."}
        ip == IF dots = {} THEN s ELSE SubSeq(s, 1, (CHOOSE i \in dots : TRUE) - 1)
        fp == IF dots = {} THEN <<>> ELSE SubSeq(s, (CHOOSE i \in dots : TRUE) + 1, Len(s))
    IN  IF s = <<>> THEN Fin(0)
        ELSE IF Cardinality(dots) > 1 \/ ip = <<>> THEN NaN
        ELSE IF \E i \in 1 .. Len(ip) : ~IsDigit(ip[i]) THEN NaN
        ELSE IF \E i \in 1 .. Len(fp) : ~IsDigit(fp[i]) THEN NaN
        ELSE Fin(DigitsVal(ip) * Unit + (DigitsVal(fp) * Unit) \div Pow10(Len(fp)))

\* StringToNumber: an optional minus sign, then an unsigned literal
StrToNumber(s) ==
    IF s # <<>> /\ s[1] = "-"
    THEN LET n == UnsignedToNumber(Tail(s))
         IN  IF Len(s) = 1 \/ n.nan THEN NaN ELSE Fin(0 - n.v)
    ELSE UnsignedToNumber(s)

\* Number(x) for an optional JSON value x
Number(o) ==
    IF o = None THEN NaN
    ELSE LET x == The(o) IN
         CASE x.t = "null" -> Fin(0)
           [] x.t = "bool" -> Fin(IF x.b THEN Unit ELSE 0)
           [] x.t = "num"  -> Fin(x.v)
           [] x.t = "str"  -> StrToNumber(x.s)
           [] x.t = "arr"  -> IF Len(x.elems) = 0 THEN Fin(0) ELSE NaN
           [] OTHER        -> NaN

\* n || d
OrDefault(n, d) == IF n.nan \/ n.v = 0 THEN d ELSE n.v

\* Math.max(lo, Math.min(hi, x))
clamp(x, lo, hi) == Max2(lo, Min2(hi, x))

\* Array.prototype.slice(0, n)
slice(a, n) == SubSeq(a, 1, Min2(n, Len(a)))

----------------------------------------------------------------------------
(* The external model's reply *)

Fence == [t |-> "fence"]
Prose == [t |-> "prose"]
Json(v) == [t |-> "json", v |-> v]
JObj(ms, tg) == [t |-> "obj", moodScore |-> ms, tags |-> tg]

\* textResponse.replace(/```json|```/g, '').trim()
cleanJson(text) == SelectSeq(text, LAMBDA tok : tok.t # "fence")

\* JSON.parse: the parsed value, or None when it throws
jsonParse(clean) ==
    IF Len(clean) = 1 /\ clean[1].t = "json" THEN Some(clean[1].v) ELSE None

Thrown == [kind |-> "throw"]
Reply(text) == [kind |-> "reply", text |-> text]

\* data.moodScore / data.tags: the key of a parsed value (undefined is None)
moodScoreKey(data) == IF data.t = "obj" /\ "moodScore" \in DOMAIN data THEN data.moodScore ELSE None
tagsKey(data) == IF data.t = "obj" /\ "tags" \in DOMAIN data THEN data.tags ELSE None

\* coerceAnalysis without the slice(0, 5) of the tags
coerceAnalysisNoSlice(data) ==
    [moodScore |-> clamp(OrDefault(Number(moodScoreKey(data)), DefaultScore * Unit),
                         MinScore * Unit, MaxScore * Unit),
     tags |-> IF tagsKey(data) # None /\ The(tagsKey(data)).t = "arr"
              THEN The(tagsKey(data)).elems
              ELSE <<Str(W_general)>>]

\* entryController.js lines 27-30 and aiController.js lines 44-47
coerceAnalysis(data) ==
    [moodScore |-> clamp(OrDefault(Number(moodScoreKey(data)), DefaultScore * Unit),
                         MinScore * Unit, MaxScore * Unit),
     tags |-> IF tagsKey(data) # None /\ The(tagsKey(data)).t = "arr"
              THEN slice(The(tagsKey(data)).elems, MaxTags)
              ELSE <<Str(W_general)>>]

\* whether lines 23-30 complete without throwing
analysisSucceeds(outcome) ==
    /\ outcome.kind = "reply"
    /\ jsonParse(cleanJson(outcome.text)) # None
    /\ The(jsonParse(cleanJson(outcome.text))).t # "null"

\* entryController.js getAiAnalysis
getAiAnalysis(text, outcome) ==
    IF analysisSucceeds(outcome)
    THEN coerceAnalysis(The(jsonParse(cleanJson(outcome.text))))
    ELSE [moodScore |-> OfflineScore * Unit, tags |-> <<Str(W_offline)>>]

PositiveWords == << <<"h","a","p","p","y">>, <<"g","o","o","d">>, <<"g","r","e","a","t">>,
                    <<"l","o","v","e">>, <<"e","x","c","i","t","e","d">> >>
NegativeWords == << <<"s","a","d">>, <<"b","a","d">>, <<"h","a","t","e">>,
                    <<"t","i","r","e","d">>, <<"a","n","g","r","y">> >>

\* fallbackAnalyze without the toLowerCase of line 8
fallbackAnalyzeCaseSensitive(text) ==
    LET positive == Len(SelectSeq(PositiveWords, LAMBDA w : includes(text, w)))
        negative == Len(SelectSeq(NegativeWords, LAMBDA w : includes(text, w)))
        score == FallbackBase * Unit + positive * Unit - negative * Unit
    IN  [moodScore |-> clamp(score, MinScore * Unit, MaxScore * Unit),
         tags |-> <<Str(W_offline_analysis)>>]

\* aiController.js fallbackAnalyze
fallbackAnalyze(text) ==
    LET lowerText == toLowerCase(text)
        positive == Len(SelectSeq(PositiveWords, LAMBDA w : includes(lowerText, w)))
        negative == Len(SelectSeq(NegativeWords, LAMBDA w : includes(lowerText, w)))
        score == FallbackBase * Unit + positive * Unit - negative * Unit
    IN  [moodScore |-> clamp(score, MinScore * Unit, MaxScore * Unit),
         tags |-> <<Str(W_offline_analysis)>>]

----------------------------------------------------------------------------
(* models/JournalEntry.js *)

\* tags: [{ type: String }] -- an element that is not a string fails the cast
castTags(tags) ==
    IF \A i \in 1 .. Len(tags) : tags[i].t = "str"
    THEN Some([i \in 1 .. Len(tags) |-> tags[i].s])
    ELSE None

\* moodScore: { type: Number, required: true, min: 1, max: 10 }
moodScoreValid(m) == m >= MinScore * Unit /\ m <= MaxScore * Unit

\* the document the schema accepts for these paths, or None on a validation error
entrySchema(userId, text, moodScore, tags, createdAt) ==
    IF text # <<>> /\ moodScoreValid(moodScore) /\ castTags(tags) # None
    THEN Some([userId |-> userId, text |-> text, moodScore |-> moodScore,
               tags |-> The(castTags(tags)), createdAt |-> createdAt])
    ELSE None

Paths == {"userId", "text", "moodScore", "tags", "createdAt"}

\* a stored document as the JSON the handlers return
withId(id, doc) ==
    [id |-> id, userId |-> doc.userId, text |-> doc.text, moodScore |-> doc.moodScore,
     tags |-> doc.tags, createdAt |-> doc.createdAt]

----------------------------------------------------------------------------
(* Requests *)

Idle == [op |-> "none", pc |-> "idle"]
Free(r) == reqs[r].pc = "idle"
InFlight(op) == Cardinality({r \in DOMAIN reqs : reqs[r].op = op /\ reqs[r].pc # "done"})

\* res.json(...) / res.status(...).json(...): the response leaves, the connection is free
respond(r) ==
    /\ reqs[r].pc = "done"
    /\ reqs' = [reqs EXCEPT ![r] = Idle]
    /\ UNCHANGED <<store, nextId, app>>

----------------------------------------------------------------------------
(* entryController.js createEntry *)

\* createStart without the text check of lines 41-43
createStartNoValidation(r, callers, bodies) ==
    /\ Free(r)
    /\ \E caller \in callers, body \in bodies :
         /\ nextId + InFlight("createEntry") <= MaxEntries
         /\ reqs' = [reqs EXCEPT ![r] = [op |-> "createEntry", pc |-> "model",
                        caller |-> caller, body |-> body]]
    /\ UNCHANGED <<store, nextId, app>>

\* lines 39-47: validate the body, then call the external model
createStart(r, callers, bodies) ==
    /\ Free(r)
    /\ \E caller \in callers, body \in bodies :
         IF body.text = <<>>
         THEN reqs' = [reqs EXCEPT ![r] = [op |-> "createEntry", pc |-> "done",
                          caller |-> caller, body |-> body, status |-> 400,
                          called |-> FALSE]]
         ELSE /\ nextId + InFlight("createEntry") <= MaxEntries
              /\ reqs' = [reqs EXCEPT ![r] = [op |-> "createEntry", pc |-> "model",
                          caller |-> caller, body |-> body]]
    /\ UNCHANGED <<store, nextId, app>>

\* lines 47-55: the model call settles; the document is built and the write is issued
createAnalyzed(r, outcomes, times) ==
    /\ reqs[r].op = "createEntry" /\ reqs[r].pc = "model"
    /\ \E outcome \in outcomes, t \in times :
         reqs' = [reqs EXCEPT ![r] = [op |-> "createEntry", pc |-> "store",
                     caller |-> reqs[r].caller, body |-> reqs[r].body,
                     outcome |-> outcome,
                     analysis |-> getAiAnalysis(reqs[r].body.text, outcome),
                     createdAt |-> t]]
    /\ UNCHANGED <<store, nextId, app>>

\* createStored building the document from the whole body
\* (JournalEntry.create({ ...analysis, userId: req.user.id, ...req.body }))
createStoredSpread(r) ==
    /\ reqs[r].op = "createEntry" /\ reqs[r].pc = "store"
    /\ \E storeOk \in BOOLEAN :
         LET q == reqs[r]
             b == q.body
             doc == entrySchema(IF b.userId # None THEN The(b.userId) ELSE q.caller,
                                b.text,
                                IF b.moodScore # None THEN The(b.moodScore)
                                ELSE q.analysis.moodScore,
                                IF b.tags # None THEN The(b.tags) ELSE q.analysis.tags,
                                IF b.createdAt # None THEN The(b.createdAt) ELSE q.createdAt)
             done == [op |-> "createEntry", pc |-> "done", caller |-> q.caller,
                      body |-> q.body, outcome |-> q.outcome, analysis |-> q.analysis,
                      called |-> TRUE, storeOk |-> storeOk]
         IN  IF storeOk /\ doc # None
             THEN /\ store' = (nextId :> The(doc)) @@ store
                  /\ nextId' = nextId + 1
                  /\ UNCHANGED app
                  /\ reqs' = [reqs EXCEPT ![r] = done @@ [status |-> 201,
                                  entry |-> Some(withId(nextId, The(doc)))]]
             ELSE /\ reqs' = [reqs EXCEPT ![r] = done @@ [status |-> 500, entry |-> None]]
                  /\ UNCHANGED <<store, nextId, app>>

\* createStored with a write that can fail after the document was inserted
createStoredPartial(r) ==
    /\ reqs[r].op = "createEntry" /\ reqs[r].pc = "store"
    /\ \E storeOk \in BOOLEAN :
         LET q == reqs[r]
             doc == entrySchema(q.caller, q.body.text, q.analysis.moodScore,
                                q.analysis.tags, q.createdAt)
             done == [op |-> "createEntry", pc |-> "done", caller |-> q.caller,
                      body |-> q.body, outcome |-> q.outcome, analysis |-> q.analysis,
                      called |-> TRUE, storeOk |-> storeOk]
         IN  IF doc # None
             THEN /\ store' = (nextId :> The(doc)) @@ store
                  /\ nextId' = nextId + 1
                  /\ UNCHANGED app
                  /\ reqs' = [reqs EXCEPT ![r] = done @@
                                 IF storeOk
                                 THEN [status |-> 201,
                                       entry |-> Some(withId(nextId, The(doc)))]
                                 ELSE [status |-> 500, entry |-> None]]
             ELSE /\ reqs' = [reqs EXCEPT ![r] = done @@ [status |-> 500, entry |-> None]]
                  /\ UNCHANGED <<store, nextId, app>>

\* lines 50-60: JournalEntry.create settles; 201 with the entry, or 500
createStored(r) ==
    /\ reqs[r].op = "createEntry" /\ reqs[r].pc = "store"
    /\ \E storeOk \in BOOLEAN :
         LET q == reqs[r]
             doc == entrySchema(q.caller, q.body.text, q.analysis.moodScore,
                                q.analysis.tags, q.createdAt)
             done == [op |-> "createEntry", pc |-> "done", caller |-> q.caller,
                      body |-> q.body, outcome |-> q.outcome, analysis |-> q.analysis,
                      called |-> TRUE, storeOk |-> storeOk]
         IN  IF storeOk /\ doc # None
             THEN /\ store' = (nextId :> The(doc)) @@ store
                  /\ nextId' = nextId + 1
                  /\ UNCHANGED app
                  /\ reqs' = [reqs EXCEPT ![r] = done @@ [status |-> 201,
                                  entry |-> Some(withId(nextId, The(doc)))]]
             ELSE /\ reqs' = [reqs EXCEPT ![r] = done @@ [status |-> 500, entry |-> None]]
                  /\ UNCHANGED <<store, nextId, app>>

createEntry(r, callers, bodies, outcomes, times) ==
    \/ createStart(r, callers, bodies)
    \/ createAnalyzed(r, outcomes, times)
    \/ createStored(r)

----------------------------------------------------------------------------
(* entryController.js updateEntry *)

\* x is a truthy string: neither undefined nor ""
truthy(x) == x # None /\ The(x) # <<>>

\* updateFields annotating a new text again, as createEntry does (here with the
\* score of the unreachable model)
updateFieldsRescore(entry, body) ==
    LET tags == IF body.tags # None THEN castTags(The(body.tags)) ELSE Some(entry.tags)
    IN  IF tags = None THEN None
        ELSE Some([userId |-> entry.userId,
                   text |-> IF truthy(body.text) THEN The(body.text) ELSE entry.text,
                   moodScore |-> IF truthy(body.text) THEN OfflineScore * Unit
                                 ELSE entry.moodScore,
                   tags |-> The(tags),
                   createdAt |-> IF body.createdAt # None THEN The(body.createdAt)
                                 ELSE entry.createdAt])

\* lines 136-138 on the loaded document; None when a provided value fails its cast
updateFields(entry, body) ==
    LET tags == IF body.tags # None THEN castTags(The(body.tags)) ELSE Some(entry.tags)
    IN  IF tags = None THEN None
        ELSE Some([userId |-> entry.userId,
                   text |-> IF truthy(body.text) THEN The(body.text) ELSE entry.text,
                   moodScore |-> entry.moodScore,
                   tags |-> The(tags),
                   createdAt |-> IF body.createdAt # None THEN The(body.createdAt)
                                 ELSE entry.createdAt])

\* the paths save() writes: those whose value differs from the loaded one
modifiedPaths(entry, doc) == {p \in Paths : doc[p] # entry[p]}

\* updateFind with the ownership check of lines 132-134 left out
updateFindNoOwnerCheck(r, callers, ids, bodies) ==
    /\ Free(r)
    /\ \E caller \in callers, id \in ids, body \in bodies :
         LET q == [op |-> "updateEntry", caller |-> caller, id |-> id, body |-> body]
         IN  IF id \notin DOMAIN store
             THEN reqs' = [reqs EXCEPT ![r] = q @@ [pc |-> "done", status |-> 404]]
             ELSE reqs' = [reqs EXCEPT ![r] = q @@ [pc |-> "save",
                              loaded |-> store[id], fresh |-> TRUE,
                              doc |-> updateFields(store[id], body)]]
    /\ UNCHANGED <<store, nextId, app>>

\* updateFind as an upsert: a missing id is written instead of answered 404
updateFindUpsert(r, callers, ids, bodies) ==
    /\ Free(r)
    /\ \E caller \in callers, id \in ids, body \in bodies :
         LET q == [op |-> "updateEntry", caller |-> caller, id |-> id, body |-> body]
         IN  IF id \notin DOMAIN store
             THEN /\ truthy(body.text)
                  /\ store' = (id :> [userId |-> caller, text |-> The(body.text),
                                      moodScore |-> DefaultScore * Unit, tags |-> <<>>,
                                      createdAt |-> 1]) @@ store
                  /\ reqs' = [reqs EXCEPT ![r] = q @@ [pc |-> "done", status |-> 200]]
             ELSE /\ UNCHANGED store
                  /\ IF store[id].userId # caller
                     THEN reqs' = [reqs EXCEPT ![r] = q @@ [pc |-> "done", status |-> 401]]
                     ELSE reqs' = [reqs EXCEPT ![r] = q @@ [pc |-> "save",
                                      loaded |-> store[id], fresh |-> TRUE,
                                      doc |-> updateFields(store[id], body)]]
    /\ UNCHANGED <<nextId, app>>

\* lines 125-140: findById settles; 404, 401, or assign and issue save
updateFind(r, callers, ids, bodies) ==
    /\ Free(r)
    /\ \E caller \in callers, id \in ids, body \in bodies :
         LET q == [op |-> "updateEntry", caller |-> caller, id |-> id, body |-> body]
         IN  IF id \notin DOMAIN store
             THEN reqs' = [reqs EXCEPT ![r] = q @@ [pc |-> "done", status |-> 404]]
             ELSE IF store[id].userId # caller
             THEN reqs' = [reqs EXCEPT ![r] = q @@ [pc |-> "done", status |-> 401]]
             ELSE reqs' = [reqs EXCEPT ![r] = q @@ [pc |-> "save",
                              loaded |-> store[id], fresh |-> TRUE,
                              doc |-> updateFields(store[id], body)]]
    /\ UNCHANGED <<store, nextId, app>>

\* lines 140-144: save settles; 200 with the updated entry, or 500.
\* save() validates, then updates the modified paths of the document with this
\* _id, or only looks the document up when no path is modified; a missing
\* document is a DocumentNotFoundError.  The schema keeps the default versionKey:
\* a save that sets the tags array also matches on the __v it loaded and
\* increments it, so it fails with a VersionError once another such save has
\* settled (fresh = FALSE on the requests that loaded the older __v).
updateSave(r) ==
    /\ reqs[r].op = "updateEntry" /\ reqs[r].pc = "save"
    /\ LET q == reqs[r]
           done == [op |-> "updateEntry", pc |-> "done", caller |-> q.caller,
                    id |-> q.id, body |-> q.body]
           valid == q.doc # None /\ moodScoreValid(The(q.doc).moodScore)
                                 /\ The(q.doc).text # <<>>
           mod == modifiedPaths(q.loaded, The(q.doc))
           versioned == "tags" \in mod
           outdated(o) == /\ versioned /\ o # r
                          /\ reqs[o].op = "updateEntry" /\ reqs[o].pc = "save"
                          /\ reqs[o].id = q.id
       IN  IF ~valid \/ q.id \notin DOMAIN store \/ (versioned /\ ~q.fresh)
           THEN /\ reqs' = [reqs EXCEPT ![r] = done @@ [status |-> 500]]
                /\ UNCHANGED store
           ELSE /\ store' = IF mod = {} THEN store
                            ELSE [store EXCEPT ![q.id] =
                                    [p \in Paths |-> IF p \in mod THEN The(q.doc)[p]
                                                     ELSE store[q.id][p]]]
                /\ reqs' = [o \in DOMAIN reqs |->
                               IF o = r
                               THEN done @@ [status |-> 200,
                                             entry |-> withId(q.id, The(q.doc))]
                               ELSE IF outdated(o)
                               THEN [reqs[o] EXCEPT !.fresh = FALSE]
                               ELSE reqs[o]]
    /\ UNCHANGED <<nextId, app>>

\* the save step as findByIdAndUpdate(id, req.body): every key of the body is
\* written, and no validator runs
updateSaveMassAssign(r) ==
    /\ reqs[r].op = "updateEntry" /\ reqs[r].pc = "save"
    /\ LET q == reqs[r]
           old == store[q.id]
           new == [userId |-> old.userId,
                   text |-> IF truthy(q.body.text) THEN The(q.body.text) ELSE old.text,
                   moodScore |-> IF q.body.moodScore # None THEN The(q.body.moodScore)
                                 ELSE old.moodScore,
                   tags |-> IF q.doc # None THEN The(q.doc).tags ELSE old.tags,
                   createdAt |-> IF q.body.createdAt # None THEN The(q.body.createdAt)
                                 ELSE old.createdAt]
       IN  /\ q.id \in DOMAIN store
           /\ store' = [store EXCEPT ![q.id] = new]
           /\ reqs' = [reqs EXCEPT ![r] = [op |-> "updateEntry", pc |-> "done",
                          caller |-> q.caller, id |-> q.id, body |-> q.body,
                          status |-> 200, entry |-> withId(q.id, new)]]
    /\ UNCHANGED <<nextId, app>>

\* updateEntry with the mass-assigning save
updateEntryMassAssign(r, callers, ids, bodies) ==
    \/ updateFind(r, callers, ids, bodies)
    \/ updateSaveMassAssign(r)

updateEntry(r, callers, ids, bodies) ==
    \/ updateFind(r, callers, ids, bodies)
    \/ updateSave(r)

----------------------------------------------------------------------------
(* entryController.js deleteEntry *)

\* deleteFind with the ownership test first (entry?.userId), so that a missing
\* id is answered like a foreign one
deleteFindOwnerFirst(r, callers, ids) ==
    /\ Free(r)
    /\ \E caller \in callers, id \in ids :
         LET q == [op |-> "deleteEntry", caller |-> caller, id |-> id]
         IN  IF id \notin DOMAIN store \/ store[id].userId # caller
             THEN reqs' = [reqs EXCEPT ![r] = q @@ [pc |-> "done", status |-> 401]]
             ELSE reqs' = [reqs EXCEPT ![r] = q @@ [pc |-> "delete"]]
    /\ UNCHANGED <<store, nextId, app>>

\* lines 151-162: findById settles; 404, 401, or issue deleteOne
deleteFind(r, callers, ids) ==
    /\ Free(r)
    /\ \E caller \in callers, id \in ids :
         LET q == [op |-> "deleteEntry", caller |-> caller, id |-> id]
         IN  IF id \notin DOMAIN store
             THEN reqs' = [reqs EXCEPT ![r] = q @@ [pc |-> "done", status |-> 404]]
             ELSE IF store[id].userId # caller
             THEN reqs' = [reqs EXCEPT ![r] = q @@ [pc |-> "done", status |-> 401]]
             ELSE reqs' = [reqs EXCEPT ![r] = q @@ [pc |-> "delete"]]
    /\ UNCHANGED <<store, nextId, app>>

\* lines 162-163: deleteOne settles (removing nothing if the document is gone)
deleteOne(r) ==
    /\ reqs[r].op = "deleteEntry" /\ reqs[r].pc = "delete"
    /\ store' = [i \in DOMAIN store \ {reqs[r].id} |-> store[i]]
    /\ reqs' = [reqs EXCEPT ![r] = [op |-> "deleteEntry", pc |-> "done",
                   caller |-> reqs[r].caller, id |-> reqs[r].id, status |-> 200]]
    /\ UNCHANGED <<nextId, app>>

deleteEntry(r, callers, ids) ==
    \/ deleteFind(r, callers, ids)
    \/ deleteOne(r)

----------------------------------------------------------------------------
(* entryController.js getEntries *)

\* new Date(startDate): the first instant of the day
startOfDay(d) == d * DayLen
\* end.setHours(23, 59, 59, 999): the last instant of the day
endOfDay(d) == d * DayLen + DayLen - 1

\* matches with the userId condition of line 66 left out
matchesAnyOwner(entry, caller, query) ==
    /\ query.startDate # None => entry.createdAt >= startOfDay(The(query.startDate))
    /\ query.endDate # None => entry.createdAt <= endOfDay(The(query.endDate))
    /\ query.mood = "happy" => entry.moodScore >= HappyMin * Unit
    /\ query.mood = "neutral" => /\ entry.moodScore >= NeutralMin * Unit
                                 /\ entry.moodScore < HappyMin * Unit
    /\ query.mood = "sad" => entry.moodScore < NeutralMin * Unit
    /\ query.search # <<>> =>
         \/ regexMatchI(entry.text, query.search)
         \/ \E i \in 1 .. Len(entry.tags) : regexMatchI(entry.tags[i], query.search)

\* matches with the neutral bucket of line 82 closed above ($lte instead of $lt)
matchesNeutralInclusive(entry, caller, query) ==
    /\ entry.userId = caller
    /\ query.startDate # None => entry.createdAt >= startOfDay(The(query.startDate))
    /\ query.endDate # None => entry.createdAt <= endOfDay(The(query.endDate))
    /\ query.mood = "happy" => entry.moodScore >= HappyMin * Unit
    /\ query.mood = "neutral" => /\ entry.moodScore >= NeutralMin * Unit
                                 /\ entry.moodScore <= HappyMin * Unit
    /\ query.mood = "sad" => entry.moodScore < NeutralMin * Unit
    /\ query.search # <<>> =>
         \/ regexMatchI(entry.text, query.search)
         \/ \E i \in 1 .. Len(entry.tags) : regexMatchI(entry.tags[i], query.search)

\* lines 66-92: the Mongo query built from the caller and req.query
matches(entry, caller, query) ==
    /\ entry.userId = caller
    /\ query.startDate # None => entry.createdAt >= startOfDay(The(query.startDate))
    /\ query.endDate # None => entry.createdAt <= endOfDay(The(query.endDate))
    /\ query.mood = "happy" => entry.moodScore >= HappyMin * Unit
    /\ query.mood = "neutral" => /\ entry.moodScore >= NeutralMin * Unit
                                 /\ entry.moodScore < HappyMin * Unit
    /\ query.mood = "sad" => entry.moodScore < NeutralMin * Unit
    /\ query.search # <<>> =>
         \/ regexMatchI(entry.text, query.search)
         \/ \E i \in 1 .. Len(entry.tags) : regexMatchI(entry.tags[i], query.search)

\* sortsBefore with the default order ascending ({ createdAt: 1 })
sortsBeforeAscending(a, b, sortBy) ==
    CASE sortBy = "oldest"  -> a.createdAt <= b.createdAt
      [] sortBy = "highest" -> a.moodScore >= b.moodScore
      [] sortBy = "lowest"  -> a.moodScore <= b.moodScore
      [] OTHER              -> a.createdAt <= b.createdAt

\* lines 95-98: whether document a may precede document b under sortBy
sortsBefore(a, b, sortBy) ==
    CASE sortBy = "oldest"  -> a.createdAt <= b.createdAt
      [] sortBy = "highest" -> a.moodScore >= b.moodScore
      [] sortBy = "lowest"  -> a.moodScore <= b.moodScore
      [] OTHER              -> a.createdAt >= b.createdAt

\* the orders find().sort() may return for a set of ids (ties in any order):
\* any document that may precede all the others, then an order of the rest
RECURSIVE sortedOrders(_, _)
sortedOrders(ids, sortBy) ==
    IF ids = {} THEN {<<>>}
    ELSE UNION {{<<m>> \o o : o \in sortedOrders(ids \ {m}, sortBy)} :
                   m \in {i \in ids :
                            \A j \in ids : sortsBefore(store[i], store[j], sortBy)}}

\* a req.query value used as a number (page - 1, total / limit, Number(limit)):
\* the string converted, for the decimal integer literals the inputs carry
queryNumber(o, default) ==
    IF o = None THEN default ELSE Number(Some(Str(The(o)))).v \div Unit

\* getEntries skipping page * limit documents instead of (page - 1) * limit
getEntriesSkipPage(r, callers, queries) ==
    /\ Free(r)
    /\ \E caller \in callers, query \in queries :
         LET page == queryNumber(query.page, DefaultPage)
             limit == queryNumber(query.limit, DefaultLimit)
             found == {i \in DOMAIN store : matches(store[i], caller, query)}
             total == Cardinality(found)
             skip == page * limit
         IN  \E order \in sortedOrders(found, query.sortBy) :
               reqs' = [reqs EXCEPT ![r] =
                   [op |-> "getEntries", pc |-> "done", caller |-> caller,
                    query |-> query, status |-> 200,
                    entries |-> [k \in 1 .. Max2(0, Min2(limit, total - skip)) |->
                                    withId(order[skip + k], store[order[skip + k]])],
                    pagination |-> [total |-> total,
                                    pages |-> (total + limit - 1) \div limit,
                                    page |-> page, limit |-> limit]]]
    /\ UNCHANGED <<store, nextId, app>>

\* getEntries reporting the size of the returned page as the total
getEntriesCountsPage(r, callers, queries) ==
    /\ Free(r)
    /\ \E caller \in callers, query \in queries :
         LET page == queryNumber(query.page, DefaultPage)
             limit == queryNumber(query.limit, DefaultLimit)
             found == {i \in DOMAIN store : matches(store[i], caller, query)}
             skip == (page - 1) * limit
             total == Max2(0, Min2(limit, Cardinality(found) - skip))
         IN  \E order \in sortedOrders(found, query.sortBy) :
               reqs' = [reqs EXCEPT ![r] =
                   [op |-> "getEntries", pc |-> "done", caller |-> caller,
                    query |-> query, status |-> 200,
                    entries |-> [k \in 1 .. total |->
                                    withId(order[skip + k], store[order[skip + k]])],
                    pagination |-> [total |-> total,
                                    pages |-> (total + limit - 1) \div limit,
                                    page |-> page, limit |-> limit]]]
    /\ UNCHANGED <<store, nextId, app>>

\* getEntries reporting at least one page (Math.max(1, Math.ceil(total / limit)))
getEntriesOnePageMin(r, callers, queries) ==
    /\ Free(r)
    /\ \E caller \in callers, query \in queries :
         LET page == queryNumber(query.page, DefaultPage)
             limit == queryNumber(query.limit, DefaultLimit)
             found == {i \in DOMAIN store : matches(store[i], caller, query)}
             total == Cardinality(found)
             skip == (page - 1) * limit
         IN  \E order \in sortedOrders(found, query.sortBy) :
               reqs' = [reqs EXCEPT ![r] =
                   [op |-> "getEntries", pc |-> "done", caller |-> caller,
                    query |-> query, status |-> 200,
                    entries |-> [k \in 1 .. Max2(0, Min2(limit, total - skip)) |->
                                    withId(order[skip + k], store[order[skip + k]])],
                    pagination |-> [total |-> total,
                                    pages |-> Max2(1, (total + limit - 1) \div limit),
                                    page |-> page, limit |-> limit]]]
    /\ UNCHANGED <<store, nextId, app>>

\* lines 63-100: the query is built and the matching documents are counted
getEntriesCount(r, callers, queries) ==
    /\ Free(r)
    /\ \E caller \in callers, query \in queries :
         reqs' = [reqs EXCEPT ![r] =
             [op |-> "getEntries", pc |-> "find", caller |-> caller, query |-> query,
              total |-> Cardinality({i \in DOMAIN store : matches(store[i], caller, query)})]]
    /\ UNCHANGED <<store, nextId, app>>

\* lines 101-114: find, sort, skip and limit on the collection as it is now,
\* and the response with the total counted before
getEntriesFind(r) ==
    /\ reqs[r].op = "getEntries" /\ reqs[r].pc = "find"
    /\ LET caller == reqs[r].caller
           query == reqs[r].query
           page == queryNumber(query.page, DefaultPage)
           limit == queryNumber(query.limit, DefaultLimit)
           found == {i \in DOMAIN store : matches(store[i], caller, query)}
           total == reqs[r].total
           skip == (page - 1) * limit
       IN  \E order \in sortedOrders(found, query.sortBy) :
             reqs' = [reqs EXCEPT ![r] =
                 [op |-> "getEntries", pc |-> "done", caller |-> caller,
                  query |-> query, status |-> 200,
                  entries |-> [k \in 1 .. Max2(0, Min2(limit, Cardinality(found) - skip)) |->
                                  withId(order[skip + k], store[order[skip + k]])],
                  pagination |-> [total |-> total,
                                  pages |-> (total + limit - 1) \div limit,
                                  page |-> page, limit |-> limit]]]
    /\ UNCHANGED <<store, nextId, app>>

\* lines 63-118
getEntries(r, callers, queries) ==
    \/ getEntriesCount(r, callers, queries)
    \/ getEntriesFind(r)

----------------------------------------------------------------------------
(* App.jsx: the state of the App component *)

ITEMS_PER_PAGE == 8

\* a key that is undefined in a parsed request body
Undefined == [t |-> "undefined"]

\* String(n) for 0 <= n < 100
numStr(n) ==
    IF n < 10 THEN <<Digits[n + 1]>> ELSE <<Digits[(n \div 10) + 1], Digits[(n % 10) + 1]>>

\* s.trim()
RECURSIVE trim(_)
trim(s) ==
    IF s # <<>> /\ s[1] = " " THEN trim(Tail(s))
    ELSE IF s # <<>> /\ s[Len(s)] = " " THEN trim(SubSeq(s, 1, Len(s) - 1))
    ELSE s

\* whether a JSON value is truthy
jsTruthy(v) ==
    CASE v.t = "null" -> FALSE
      [] v.t = "undefined" -> FALSE
      [] v.t = "bool" -> v.b
      [] v.t = "num" -> v.v # 0
      [] v.t = "str" -> v.s # <<>>
      [] OTHER -> TRUE

\* lines 305-321: the useState initial values; both effects run after the
\* first render and start their timers, the load timer (300 ms) due first.
\* Beside the component's state: loadTimer and aiTimer say whether the timer
\* of each effect is pending, loadFirst whether the pending load timer is
\* certainly due before the pending search timer, sent holds per connection
\* the request whose response has not reached the component; issued numbers
\* the requests, shown and shownIds name the request whose response was
\* applied last, changes counts the user's actions
AppInit ==
    [entries |-> <<>>, searchQuery |-> <<>>, moodFilter |-> "all", sortBy |-> "latest",
     startDate |-> None, endDate |-> None, currentPage |-> 1, totalPages |-> 1,
     aiFilteredIds |-> JNull,
     loadTimer |-> TRUE, aiTimer |-> TRUE, loadFirst |-> TRUE,
     sent |-> <<>>, issued |-> 0, shown |-> 0, shownIds |-> 0, changes |-> 0]

----------------------------------------------------------------------------
(* The entry API driven by two users over one connection *)

Conns == {"c1"}
ReqIds == 1 .. MaxEntries

ModelOk == Reply(<<Json(JObj(Some(Num(7 * Unit)), Some(Arr(<<Str(W_work)>>))))>>)

\* a create body with text alone, and one that also carries the other fields of
\* an entry, none of which the stored entry would otherwise have
PlainBody(text) ==
    [text |-> text, userId |-> None, moodScore |-> None, tags |-> None, createdAt |-> None]
ForgedBody ==
    [text |-> T_great, userId |-> Some("u2"), moodScore |-> Some(2 * Unit),
     tags |-> Some(<<Str(W_trip)>>), createdAt |-> Some(9)]
CreateBodies == {PlainBody(<<>>), PlainBody(T_great), ForgedBody}
Outcomes == {Thrown, ModelOk}
Clock == {1}
UpdateBodies == {[text |-> None, tags |-> None, createdAt |-> None, moodScore |-> None],
                 [text |-> Some(T_work), tags |-> None, createdAt |-> Some(2),
                  moodScore |-> Some(9 * Unit)]}
Queries == [page : {None, Some(<<"2">>)}, limit : {None, Some(<<"1">>)},
            startDate : {None, Some(1)}, endDate : {None, Some(0)},
            mood : {"", "happy"}, search : {<<>>, W_work}, sortBy : {"", "lowest"}]

Init ==
    /\ store = <<>>
    /\ nextId = 1
    /\ reqs = [r \in Conns |-> Idle]
    /\ app = AppInit

Next ==
    \/ \E r \in Conns : respond(r)
    \/ \E r \in Conns : createEntry(r, Users, CreateBodies, Outcomes, Clock)
    \/ \E r \in Conns : getEntries(r, Users, Queries)
    \/ \E r \in Conns : updateEntry(r, Users, ReqIds, UpdateBodies)
    \/ \E r \in Conns : deleteEntry(r, Users, ReqIds)

Spec == Init /\ [][Next]_vars

----------------------------------------------------------------------------
(* aiController.js analyzeEntry *)

\* lines 20-36: validate the body, then call the external model
analyzeStart(r, bodies) ==
    /\ Free(r)
    /\ \E body \in bodies :
         IF body.text = <<>>
         THEN reqs' = [reqs EXCEPT ![r] = [op |-> "analyzeEntry", pc |-> "done",
                          body |-> body, status |-> 400]]
         ELSE reqs' = [reqs EXCEPT ![r] = [op |-> "analyzeEntry", pc |-> "model",
                          body |-> body]]
    /\ UNCHANGED <<store, nextId, app>>

\* lines 36-52: the model call settles; the coerced analysis, or the fallback
analyzeReplied(r, outcomes) ==
    /\ reqs[r].op = "analyzeEntry" /\ reqs[r].pc = "model"
    /\ \E outcome \in outcomes :
         reqs' = [reqs EXCEPT ![r] = [op |-> "analyzeEntry", pc |-> "done",
                     body |-> reqs[r].body, outcome |-> outcome, status |-> 200,
                     analysis |-> IF analysisSucceeds(outcome)
                                  THEN coerceAnalysis(The(jsonParse(cleanJson(outcome.text))))
                                  ELSE fallbackAnalyze(reqs[r].body.text)]]
    /\ UNCHANGED <<store, nextId, app>>

analyzeEntry(r, bodies, outcomes) ==
    \/ analyzeStart(r, bodies)
    \/ analyzeReplied(r, outcomes)

----------------------------------------------------------------------------
(* aiController.js semanticSearch *)

\* whether entries.map(...) of lines 62-66 completes: an array whose every
\* element has a text to take the prefix of
mapSucceeds(entries) ==
    /\ entries.t = "arr"
    /\ \A i \in 1 .. Len(entries.elems) : entries.elems[i].text # None

\* lines 62-66
simplifiedEntries(entries) ==
    [i \in 1 .. Len(entries.elems) |->
        [id |-> entries.elems[i].id,
         text |-> slice(The(entries.elems[i].text), MaxPrefix),
         tags |-> entries.elems[i].tags]]

\* searchStart with entries.map(...) ahead of the try block: its exception
\* reaches the framework, which answers 500
searchStartMapOutsideTry(r, bodies) ==
    /\ Free(r)
    /\ \E body \in bodies :
         LET q == [op |-> "semanticSearch", body |-> body]
         IN  IF body.query = <<>> \/ body.entries = None
             THEN reqs' = [reqs EXCEPT ![r] = q @@ [pc |-> "done", status |-> 400,
                              failed |-> FALSE]]
             ELSE IF ~mapSucceeds(The(body.entries))
             THEN reqs' = [reqs EXCEPT ![r] = q @@ [pc |-> "done", status |-> 500,
                              failed |-> TRUE, result |-> JNull]]
             ELSE reqs' = [reqs EXCEPT ![r] = q @@ [pc |-> "model",
                              prompt |-> simplifiedEntries(The(body.entries))]]
    /\ UNCHANGED <<store, nextId, app>>

\* lines 56-81: validate the body, build the prompt, call the external model
searchStart(r, bodies) ==
    /\ Free(r)
    /\ \E body \in bodies :
         LET q == [op |-> "semanticSearch", body |-> body]
         IN  IF body.query = <<>> \/ body.entries = None
             THEN reqs' = [reqs EXCEPT ![r] = q @@ [pc |-> "done", status |-> 400,
                              failed |-> FALSE]]
             ELSE IF ~mapSucceeds(The(body.entries))
             THEN reqs' = [reqs EXCEPT ![r] = q @@ [pc |-> "done", status |-> 200,
                              failed |-> TRUE, result |-> Arr(<<>>)]]
             ELSE reqs' = [reqs EXCEPT ![r] = q @@ [pc |-> "model",
                              prompt |-> simplifiedEntries(The(body.entries))]]
    /\ UNCHANGED <<store, nextId, app>>

\* lines 81-89: the model call settles; the parsed value, or [] on any exception
searchReplied(r, outcomes) ==
    /\ reqs[r].op = "semanticSearch" /\ reqs[r].pc = "model"
    /\ \E outcome \in outcomes :
         LET parsed == IF outcome.kind = "reply" THEN jsonParse(cleanJson(outcome.text))
                       ELSE None
         IN  reqs' = [reqs EXCEPT ![r] = [op |-> "semanticSearch", pc |-> "done",
                         body |-> reqs[r].body, outcome |-> outcome, status |-> 200,
                         failed |-> (parsed = None),
                         result |-> IF parsed # None THEN The(parsed) ELSE Arr(<<>>)]]
    /\ UNCHANGED <<store, nextId, app>>

semanticSearch(r, bodies, outcomes) ==
    \/ searchStart(r, bodies)
    \/ searchReplied(r, outcomes)

----------------------------------------------------------------------------
(* Annotation: one user's entries under every shape of model reply *)

SixTags == <<Str(W_work), Str(W_gym), Str(W_trip), Str(W_general), Str(W_offline), Str(W_work)>>

ReplyNonJson == Reply(<<Prose>>)
ReplyChatty == Reply(<<Prose, Json(JObj(Some(Num(7 * Unit)), Some(Arr(<<Str(W_work)>>))))>>)
ReplyNull == Reply(<<Json(JNull)>>)
ReplyScalar == Reply(<<Json(Num(3 * Unit))>>)
ReplyFenced == Reply(<<Fence, Json(JObj(Some(Num(8 * Unit)),
                                        Some(Arr(<<Str(W_work), Str(W_gym)>>)))), Fence>>)
ReplyFraction == Reply(<<Json(JObj(Some(Num(7 * Unit + 1)), Some(Arr(<<>>))))>>)
ReplyTooHigh == Reply(<<Json(JObj(Some(Num(12 * Unit)), Some(Arr(SixTags))))>>)
ReplyNegative == Reply(<<Json(JObj(Some(Num(0 - 3 * Unit)), Some(Str(W_work))))>>)
ReplyNumString == Reply(<<Json(JObj(Some(Str(<<"7">>)), None))>>)
ReplyFracString == Reply(<<Json(JObj(Some(Str(<<"7",".","5">>)), Some(Arr(<<>>))))>>)
ReplyWord == Reply(<<Json(JObj(Some(Str(<<"h","i","g","h">>)), Some(JNull)))>>)
ReplyZero == Reply(<<Json(JObj(Some(Num(0)), None))>>)
ReplyTrue == Reply(<<Json(JObj(Some([t |-> "bool", b |-> TRUE]), None))>>)
ReplyEmptyObject == Reply(<<Json(JObjVal)>>)
ReplyObjectTag == Reply(<<Json(JObj(Some(Num(7 * Unit)), Some(Arr(<<JObjVal>>))))>>)

AnnotOutcomes ==
    {Thrown, ReplyNonJson, ReplyChatty, ReplyNull, ReplyScalar, ReplyFenced, ReplyFraction,
     ReplyTooHigh, ReplyNegative, ReplyNumString, ReplyFracString, ReplyWord, ReplyZero,
     ReplyTrue, ReplyEmptyObject, ReplyObjectTag}

AnnotUpdateBodies ==
    [text : {None}, tags : {None, Some(<<Str(W_trip)>>), Some(<<JObjVal>>)},
     createdAt : {None}, moodScore : {None, Some(99 * Unit)}]

AnalyzeBodies ==
    {[text |-> t] : t \in {<<>>, T_great, T_happy, T_low, T_high, T_mixed, T_sadness,
                           T_plain, T_work}}

NextAnnot ==
    \/ \E r \in Conns : respond(r)
    \/ \E r \in Conns : createEntry(r, {"u1"}, CreateBodies, AnnotOutcomes, Clock)
    \/ \E r \in Conns : analyzeEntry(r, AnalyzeBodies, AnnotOutcomes)
    \/ \E r \in Conns : updateEntry(r, {"u1"}, ReqIds, AnnotUpdateBodies)
    \/ \E r \in Conns : deleteEntry(r, {"u1"}, ReqIds)

SpecAnnot == Init /\ [][NextAnnot]_vars

----------------------------------------------------------------------------
(* Semantic search: stateless, over candidate lists sent by the client *)

IdStr(i) == Str(<<Digits[i + 1]>>)

Cand(i, text) == [id |-> IdStr(i), text |-> text, tags |-> <<Str(W_work)>>]
Candidates == {Cand(1, Some(T_great)), Cand(2, Some(T_work)), Cand(3, None)}
CandidateLists ==
    {<<>>} \cup {<<c>> : c \in Candidates} \cup {<<c, d>> : c, d \in Candidates}

SearchBodies ==
    [query : {<<>>, W_gym, W_work},
     entries : {None, Some(JObjVal)} \cup {Some(Arr(cs)) : cs \in CandidateLists}]

SearchOutcomes ==
    {Thrown, ReplyNonJson, ReplyNull, ReplyEmptyObject,
     Reply(<<Json(Arr(<<>>))>>),
     Reply(<<Json(Arr(<<IdStr(1)>>))>>),
     Reply(<<Fence, Json(Arr(<<IdStr(2), IdStr(1)>>)), Fence>>),
     Reply(<<Json(Arr(<<IdStr(9)>>))>>)}

NextSearch ==
    \/ \E r \in Conns : respond(r)
    \/ \E r \in Conns : semanticSearch(r, SearchBodies, SearchOutcomes)

SpecSearch == Init /\ [][NextSearch]_vars

----------------------------------------------------------------------------
(* getEntries over stored collections *)

ExampleTotal == 21

Doc(userId, text, moodScore, tags, createdAt) ==
    [userId |-> userId, text |-> text, moodScore |-> moodScore, tags |-> tags,
     createdAt |-> createdAt]

\* u1 owns an entry on each side of both bucket boundaries (4.5, 5, 6.5, 7),
\* two of them created at the same instant; u2 owns one entry
StoreMoods ==
    <<Doc("u1", T_work, 9, <<>>, 1), Doc("u1", T_great, 10, <<W_Work>>, 2),
      Doc("u1", T_great, 13, <<>>, 2), Doc("u1", T_great, 14, <<W_gym>>, 3),
      Doc("u2", T_work, 14, <<>>, 2)>>
\* u1 owns nothing, u2 owns two entries
StoreOther == <<Doc("u2", T_work, 6, <<>>, 1), Doc("u2", T_great, 16, <<W_work>>, 2)>>
\* entries that tie on moodScore and on createdAt
StoreTies ==
    <<Doc("u1", T_great, 14, <<>>, 1), Doc("u1", T_work, 14, <<>>, 1),
      Doc("u1", T_great, 6, <<W_work>>, 2), Doc("u2", T_great, 14, <<>>, 1)>>
\* u1 owns ExampleTotal entries, created at instants 1 .. ExampleTotal
StoreMany ==
    [i \in 1 .. ExampleTotal |->
        Doc("u1", T_great, MinScore * Unit + ((i - 1) % ((MaxScore - MinScore) * Unit + 1)),
            <<>>, i)]
QueryStores == {<<>>, StoreMoods, StoreOther, StoreTies, StoreMany}

PageQueries ==
    [page : {None, Some(<<"2">>), Some(<<"3">>), Some(<<"4">>)},
     limit : {None, Some(<<"1">>), Some(<<"2">>)},
     startDate : {None, Some(1)}, endDate : {None, Some(1)},
     mood : {"", "all", "happy", "neutral", "sad"}, search : {<<>>, W_work},
     sortBy : {"", "latest", "oldest", "highest", "lowest"}]

InitQuery ==
    /\ store \in QueryStores
    /\ nextId = Len(store) + 1
    /\ reqs = [r \in Conns |-> Idle]
    /\ app = AppInit

NextQuery ==
    \/ \E r \in Conns : respond(r)
    \/ \E r \in Conns : getEntries(r, Users, PageQueries)

SpecQuery == InitQuery /\ [][NextQuery]_vars

----------------------------------------------------------------------------
(* getEntries called twice over two connections, on an unchanging collection *)

Conns2 == {"c1", "c2"}

SortQueries ==
    [page : {None, Some(<<"2">>)}, limit : {Some(<<"1">>), Some(<<"2">>)},
     startDate : {None}, endDate : {None}, mood : {""}, search : {<<>>},
     sortBy : {"", "latest", "oldest", "highest", "lowest"}]

InitPages ==
    /\ store \in {StoreMoods, StoreTies}
    /\ nextId = Len(store) + 1
    /\ reqs = [r \in Conns2 |-> Idle]
    /\ app = AppInit

NextPages ==
    \/ \E r \in Conns2 : respond(r)
    \/ \E r \in Conns2 : getEntries(r, Users, SortQueries)

SpecPages == InitPages /\ [][NextPages]_vars

----------------------------------------------------------------------------
(* updateEntry on a stored entry, over one connection *)

StoreOne == <<Doc("u1", T_great, 7 * Unit, <<W_work>>, 1)>>
EditIds == {1, 2}
EditBodies ==
    [text : {None, Some(<<>>), Some(T_work)},
     tags : {None, Some(<<>>), Some(<<Str(W_trip)>>), Some(<<JObjVal>>)},
     createdAt : {None, Some(2)}, moodScore : {None}]

InitUpdate ==
    /\ store = StoreOne
    /\ nextId = Len(store) + 1
    /\ reqs = [r \in Conns |-> Idle]
    /\ app = AppInit

NextUpdate ==
    \/ \E r \in Conns : respond(r)
    \/ \E r \in Conns : updateEntry(r, Users, EditIds, EditBodies)

SpecUpdate == InitUpdate /\ [][NextUpdate]_vars

----------------------------------------------------------------------------
(* updateEntry by the owner over two connections *)

RaceBodies ==
    [text : {None, Some(T_work), Some(T_great)},
     tags : {None, Some(<<>>), Some(<<Str(W_trip)>>)},
     createdAt : {None}, moodScore : {None}]

InitRace ==
    /\ store = StoreOne
    /\ nextId = Len(store) + 1
    /\ reqs = [r \in Conns2 |-> Idle]
    /\ app = AppInit

NextRace ==
    \/ \E r \in Conns2 : respond(r)
    \/ \E r \in Conns2 : updateEntry(r, {"u1"}, {1}, RaceBodies)

SpecRace == InitRace /\ [][NextRace]_vars

----------------------------------------------------------------------------
(* getEntries with search terms *)

W_w_rk == <<"w",".","r","k">>
KeywordQueries ==
    [page : {None}, limit : {None}, startDate : {None, Some(1)}, endDate : {None, Some(1)},
     mood : {"", "neutral", "happy"}, search : {<<>>, W_work, W_gym, W_w_rk, <<".">>},
     sortBy : {""}]

InitKeyword ==
    /\ store \in {StoreMoods, StoreTies}
    /\ nextId = Len(store) + 1
    /\ reqs = [r \in Conns |-> Idle]
    /\ app = AppInit

NextKeyword ==
    \/ \E r \in Conns : respond(r)
    \/ \E r \in Conns : getEntries(r, Users, KeywordQueries)

SpecKeyword == InitKeyword /\ [][NextKeyword]_vars

----------------------------------------------------------------------------
(* getEntries beside the same user's creates and deletes, over two connections *)
ListQueries ==
    [page : {None, Some(<<"2">>)}, limit : {None, Some(<<"1">>)},
     startDate : {None}, endDate : {None}, mood : {""}, search : {<<>>},
     sortBy : {""}]

InitList ==
    /\ store = StoreOne
    /\ nextId = Len(store) + 1
    /\ reqs = [r \in Conns2 |-> Idle]
    /\ app = AppInit

NextList ==
    \/ \E r \in Conns2 : respond(r)
    \/ \E r \in Conns2 : getEntries(r, {"u1"}, ListQueries)
    \/ \E r \in Conns2 : createEntry(r, {"u1"}, {PlainBody(T_great)}, Outcomes, Clock)
    \/ \E r \in Conns2 : deleteEntry(r, {"u1"}, ReqIds)

SpecList == InitList /\ [][NextList]_vars

----------------------------------------------------------------------------
(* App.jsx: the list page of one user, its two effects and its requests *)

MaxChanges == 2

ClientUser == "u1"

\* lines 332-340 with fetchEntries lines 52-53: the query string of a load;
\* a date input left empty is sent as the empty string, which the handler
\* takes as absent
clientQuery(a) ==
    [page |-> Some(numStr(a.currentPage)), limit |-> Some(numStr(ITEMS_PER_PAGE)),
     startDate |-> a.startDate, endDate |-> a.endDate, mood |-> a.moodFilter,
     search |-> a.searchQuery, sortBy |-> a.sortBy]

\* line 113: the entries state as the search handler parses it; a listed entry
\* carries its identifier under _id, so its id key is undefined
clientCandidates(entries) ==
    [i \in 1 .. Len(entries) |->
        [id |-> Undefined, text |-> Some(entries[i].text),
         tags |-> [j \in 1 .. Len(entries[i].tags) |-> Str(entries[i].tags[j])]]]

\* app.sent without the request of connection r
received(r) == [o \in DOMAIN app.sent \ {r} |-> app.sent[o]]

\* lines 727-765: a filter control sets its state; the load effect restarts
\* its timer, and so does the search effect when the search text changed
setFilter(field, value) ==
    /\ app.changes < MaxChanges
    /\ app[field] # value
    /\ app' = [app EXCEPT ![field] = value, !.changes = @ + 1,
                          !.loadTimer = TRUE,
                          !.aiTimer = IF field = "searchQuery" THEN TRUE ELSE @,
                          !.loadFirst = (field = "searchQuery")]
    /\ UNCHANGED <<store, nextId, reqs>>

\* lines 823-830: the previous-page button
prevPage ==
    /\ app.changes < MaxChanges
    /\ app.totalPages > 1
    /\ app.currentPage # 1
    /\ app' = [app EXCEPT !.currentPage = Max2(1, @ - 1), !.changes = @ + 1,
                          !.loadTimer = TRUE, !.loadFirst = FALSE]
    /\ UNCHANGED <<store, nextId, reqs>>

\* lines 823-824, 835-841: the next-page button
nextPage ==
    /\ app.changes < MaxChanges
    /\ app.totalPages > 1
    /\ app.currentPage # app.totalPages
    /\ app' = [app EXCEPT !.currentPage = Min2(app.totalPages, @ + 1),
                          !.changes = @ + 1,
                          !.loadTimer = TRUE, !.loadFirst = FALSE]
    /\ UNCHANGED <<store, nextId, reqs>>

\* lines 330-345, 352: the load timer fires; the entries are fetched unless a
\* search result is set
loadFire(r) ==
    /\ app.loadTimer
    /\ IF jsTruthy(app.aiFilteredIds)
       THEN app' = [app EXCEPT !.loadTimer = FALSE]
       ELSE /\ r \notin DOMAIN app.sent
            /\ app' = [app EXCEPT !.loadTimer = FALSE, !.issued = @ + 1,
                          !.sent = (r :> [kind |-> "fetch", seq |-> app.issued + 1,
                                          query |-> clientQuery(app)]) @@ @]
    /\ UNCHANGED <<store, nextId, reqs>>

\* lines 357-367 up to the await: the search timer fires; a search is sent for
\* a text of more than 3 characters, otherwise the search result is cleared
aiFire(r) ==
    /\ app.aiTimer
    /\ ~(app.loadTimer /\ app.loadFirst)
    /\ IF Len(trim(app.searchQuery)) > 3
       THEN /\ r \notin DOMAIN app.sent
            /\ app' = [app EXCEPT !.aiTimer = FALSE, !.issued = @ + 1,
                          !.sent = (r :> [kind |-> "search", seq |-> app.issued + 1,
                                          body |-> [query |-> app.searchQuery,
                                                    entries |-> Some(Arr(
                                                       clientCandidates(app.entries)))]])
                                   @@ @]
       ELSE app' = [app EXCEPT !.aiTimer = FALSE, !.aiFilteredIds = JNull,
                        !.loadTimer = IF app.aiFilteredIds # JNull THEN TRUE ELSE @,
                        !.loadFirst = IF app.aiFilteredIds # JNull THEN FALSE ELSE @]
    /\ UNCHANGED <<store, nextId, reqs>>

\* the server handles a request the client has sent
serve(r, outcomes) ==
    /\ r \in DOMAIN app.sent
    /\ IF app.sent[r].kind = "fetch"
       THEN getEntries(r, {ClientUser}, {app.sent[r].query})
       ELSE semanticSearch(r, {app.sent[r].body}, outcomes)

\* lines 50-62 and 345-347: the response of a fetch, or the fallback after a
\* failure, becomes the entries and the page count; the new entries array
\* restarts the timer of the search effect
fetchDelivered(r, oks) ==
    /\ r \in DOMAIN app.sent
    /\ reqs[r].op = "getEntries" /\ reqs[r].pc = "done"
    /\ \E ok \in oks :
         LET data == IF ok /\ reqs[r].status = 200
                     THEN [entries |-> reqs[r].entries,
                           pages |-> reqs[r].pagination.pages]
                     ELSE [entries |-> <<>>, pages |-> 1]
         IN  app' = [app EXCEPT !.entries = data.entries,
                         !.totalPages = IF data.pages = 0 THEN 1 ELSE data.pages,
                         !.aiTimer = TRUE, !.loadFirst = TRUE,
                         !.shown = app.sent[r].seq,
                         !.sent = received(r)]
    /\ reqs' = [reqs EXCEPT ![r] = Idle]
    /\ UNCHANGED <<store, nextId>>

\* lines 108-120 and 361-362: the body of a search response, or [] after a
\* failure, becomes aiFilteredIds; a changed value restarts the load timer
searchDelivered(r, oks) ==
    /\ r \in DOMAIN app.sent
    /\ reqs[r].op = "semanticSearch" /\ reqs[r].pc = "done"
    /\ \E ok \in oks :
         LET ids == IF ~ok THEN Arr(<<>>)
                    ELSE IF reqs[r].status = 400 THEN JObjVal
                    ELSE reqs[r].result
             changed == ids.t \in {"arr", "obj"} \/ ids # app.aiFilteredIds
         IN  app' = [app EXCEPT !.aiFilteredIds = ids,
                         !.loadTimer = IF changed THEN TRUE ELSE @,
                         !.loadFirst = IF changed THEN FALSE ELSE @,
                         !.shownIds = app.sent[r].seq,
                         !.sent = received(r)]
    /\ reqs' = [reqs EXCEPT ![r] = Idle]
    /\ UNCHANGED <<store, nextId>>

\* line 431: the list that is rendered
displayEntries == app.entries

\* the user owns one entry more than a page holds: the first mentions work,
\* the last is the only happy one
StoreClient ==
    [i \in 1 .. ITEMS_PER_PAGE + 1 |->
        Doc(ClientUser, IF i = 1 THEN T_work ELSE W_gym, 5 + i, <<>>, i)]

W_gym_ == <<"g", "y", "m", " ">>

FilterValues ==
    [searchQuery |-> {<<>>, W_work, W_gym_}, moodFilter |-> {"all", "happy"},
     sortBy |-> {"latest", "highest"}, startDate |-> {None, Some(4)},
     endDate |-> {None, Some(1)}]

ClientOutcomes ==
    {Thrown, ReplyNull, Reply(<<Json(Arr(<<>>))>>), Reply(<<Json(Arr(<<IdStr(1)>>))>>)}

InitClient ==
    /\ store = StoreClient
    /\ nextId = Len(store) + 1
    /\ reqs = [r \in Conns2 |-> Idle]
    /\ app = AppInit

NextClient ==
    \/ \E field \in DOMAIN FilterValues :
         \E value \in FilterValues[field] : setFilter(field, value)
    \/ prevPage
    \/ nextPage
    \/ \E r \in Conns2 : loadFire(r)
    \/ \E r \in Conns2 : aiFire(r)
    \/ \E r \in Conns2 : serve(r, ClientOutcomes)
    \/ \E r \in Conns2 : fetchDelivered(r, BOOLEAN)
    \/ \E r \in Conns2 : searchDelivered(r, BOOLEAN)

SpecClient == InitClient /\ [][NextClient]_vars

----------------------------------------------------------------------------
(* The list page with a network that loses nothing, timers that fire and a  *)
(* server and an external model that answer every request                   *)
NextClientLive ==
    \/ \E field \in DOMAIN FilterValues :
         \E value \in FilterValues[field] : setFilter(field, value)
    \/ prevPage
    \/ nextPage
    \/ \E r \in Conns2 : loadFire(r)
    \/ \E r \in Conns2 : aiFire(r)
    \/ \E r \in Conns2 : serve(r, ClientOutcomes)
    \/ \E r \in Conns2 : fetchDelivered(r, {TRUE})
    \/ \E r \in Conns2 : searchDelivered(r, {TRUE})

\* a pending timer fires (setTimeout), a sent request is handled, a response
\* reaches the component; the user is under no obligation
SpecClientLive ==
    /\ InitClient
    /\ [][NextClientLive]_vars
    /\ WF_vars(\E r \in Conns2 : loadFire(r))
    /\ WF_vars(\E r \in Conns2 : aiFire(r))
    /\ WF_vars(\E r \in Conns2 : serve(r, ClientOutcomes))
    /\ WF_vars(\E r \in Conns2 : fetchDelivered(r, {TRUE}))
    /\ WF_vars(\E r \in Conns2 : searchDelivered(r, {TRUE}))

----------------------------------------------------------------------------
(* Properties *)

Done(r, op) == reqs[r].op = op /\ reqs[r].pc = "done"
Mutations == {"updateEntry", "deleteEntry"}

\* a connection takes up an update or delete request in this step
Arrives(r) == reqs[r].pc = "idle" /\ reqs'[r].op \in Mutations

\* C1: every entry returned by getEntries is owned by the caller, under every
\* filter, sort and page, after any sequence of creates, updates and deletes.
C1_OnlyOwnEntries ==
    \A r \in Conns :
        Done(r, "getEntries") =>
            \A k \in 1 .. Len(reqs[r].entries) : reqs[r].entries[k].userId = reqs[r].caller

\* C1 witness: a listing returns an entry while another user's entry is stored.
C1_Witness ==
    \E r \in Conns :
        /\ reqs[r].op = "getEntries" /\ reqs[r].pc = "done"
        /\ Len(reqs[r].entries) >= 1
        /\ \E id \in DOMAIN store : store[id].userId # reqs[r].caller

\* C2: an update or delete by a caller who is not the owner of the existing
\* target is answered 401 in that step and leaves the collection as it was.
C2_NonOwnerRejected ==
    [][\A r \in Conns :
          (/\ Arrives(r)
           /\ reqs'[r].id \in DOMAIN store
           /\ store[reqs'[r].id].userId # reqs'[r].caller)
          => (reqs'[r].pc = "done" /\ reqs'[r].status = 401 /\ store' = store)]_vars

\* C2 witness: a 401 to an update that carried a new text for a stored entry of
\* another user, whose text is not the one sent.
C2_Witness ==
    \E r \in Conns :
        /\ Done(r, "updateEntry")
        /\ reqs[r].status = 401
        /\ reqs[r].body.text # None
        /\ reqs[r].id \in DOMAIN store
        /\ store[reqs[r].id].userId # reqs[r].caller
        /\ store[reqs[r].id].text # The(reqs[r].body.text)

\* C3: every stored entry has a moodScore, and it lies in [1, 10].
C3_MoodScoreInRange ==
    \A id \in DOMAIN store :
        /\ "moodScore" \in DOMAIN store[id]
        /\ store[id].moodScore >= MinScore * Unit
        /\ store[id].moodScore <= MaxScore * Unit

\* C3 witness: an entry stored with the score 10 after the model replied 12, and
\* an update that sent a moodScore of its own has been answered.
C3_Witness ==
    /\ \E id \in DOMAIN store : store[id].moodScore = MaxScore * Unit
    /\ \E r \in Conns :
          /\ Done(r, "updateEntry")
          /\ reqs[r].status = 200
          /\ reqs[r].body.moodScore # None

\* C4: the moodScore of every annotation (createEntry's getAiAnalysis and
\* analyzeEntry) is a whole number.
C4_MoodScoreIsInteger ==
    \A r \in Conns :
        (/\ reqs[r].op \in {"createEntry", "analyzeEntry"}
         /\ reqs[r].pc = "done"
         /\ reqs[r].status # 400)
        => reqs[r].analysis.moodScore % Unit = 0

\* C5: a createEntry with a non-empty text and a working store is answered 201
\* with the new entry, whatever the model call did.
C5_CreateNeverFailsOnModel ==
    \A r \in Conns :
        (/\ Done(r, "createEntry")
         /\ reqs[r].body.text # <<>>
         /\ reqs[r].storeOk)
        => (reqs[r].status = 201 /\ reqs[r].entry # None)

\* the annotation C6 expects when the model call fails
ExpectedOffline(text) ==
    [moodScore |-> IF text = T_great THEN 6 * Unit ELSE fallbackAnalyze(text).moodScore,
     tags |-> <<W_offline_analysis>>]

\* C6: an entry created while the model call fails carries the keyword score
\* clamp(5 + positives - negatives, 1, 10) and the tags ["offline-analysis"];
\* "I had a great day with friends" is stored with 6.
C6_CreateFallbackIsHeuristic ==
    \A r \in Conns :
        (/\ Done(r, "createEntry")
         /\ reqs[r].status = 201
         /\ ~analysisSucceeds(reqs[r].outcome))
        => /\ The(reqs[r].entry).moodScore = ExpectedOffline(reqs[r].body.text).moodScore
           /\ The(reqs[r].entry).tags = ExpectedOffline(reqs[r].body.text).tags

\* whether word w occurs in s at some position, by scanning s from its head
RECURSIVE Occurs(_, _)
Occurs(w, s) ==
    IF Len(s) < Len(w) THEN FALSE
    ELSE IF \A i \in 1 .. Len(w) : s[i] = w[i] THEN TRUE
    ELSE Occurs(w, Tail(s))

\* the keyword score of C7 over the lower-cased text
KeywordScore(lowered) ==
    LET P == Cardinality({k \in 1 .. 5 : Occurs(PositiveWords[k], lowered)})
        N == Cardinality({k \in 1 .. 5 : Occurs(NegativeWords[k], lowered)})
        raw == 5 + P - N
    IN  IF raw < 1 THEN 1 ELSE IF raw > 10 THEN 10 ELSE raw

\* the sample texts in lower case, written out
Lowered(text) ==
    CASE text = T_great -> <<"i"," ","h","a","d"," ","a"," ","g","r","e","a","t"," ","d",
                             "a","y"," ","w","i","t","h"," ","f","r","i","e","n","d","s">>
      [] text = T_happy -> <<"h","a","p","p","y"," ","a","n","d"," ","e","x","c","i","t",
                             "e","d">>
      [] text = T_mixed -> <<"g","o","o","d"," ","d","a","y",","," ","b","a","d"," ","n",
                             "i","g","h","t">>
      [] OTHER -> text

\* C7: fallbackAnalyze(text) has moodScore clamp(5 + P - N, 1, 10), P and N the
\* numbers of positive and negative words occurring in the lower-cased text,
\* and the tags ["offline-analysis"]; it depends on the text alone.
C7_FallbackIsKeywordScore ==
    \A r \in Conns :
        (/\ Done(r, "analyzeEntry")
         /\ reqs[r].status = 200
         /\ ~analysisSucceeds(reqs[r].outcome))
        => /\ reqs[r].analysis.moodScore = KeywordScore(Lowered(reqs[r].body.text)) * Unit
           /\ reqs[r].analysis.tags = <<Str(W_offline_analysis)>>
           /\ reqs[r].body.text = T_great => reqs[r].analysis.moodScore = 6 * Unit
           /\ reqs[r].body.text = T_happy => reqs[r].analysis.moodScore = 7 * Unit
           /\ reqs[r].body.text = T_low => reqs[r].analysis.moodScore = 1 * Unit
           /\ reqs[r].body.text = T_high => reqs[r].analysis.moodScore = 10 * Unit

\* C7 witness: the fallback answered for an upper-case text, and the model call
\* had failed.
C7_Witness ==
    \E r \in Conns :
        /\ Done(r, "analyzeEntry")
        /\ reqs[r].status = 200
        /\ reqs[r].outcome = Thrown
        /\ reqs[r].body.text = T_happy
        /\ reqs[r].analysis.moodScore = 7 * Unit

\* a semanticSearch request with query and entries in which the prompt could not
\* be built, the model call threw, or its output was not JSON
SearchFailed(q) ==
    /\ q.body.query # <<>>
    /\ q.body.entries # None
    /\ \/ The(q.body.entries).t # "arr"
       \/ \E i \in 1 .. Len(The(q.body.entries).elems) :
             The(q.body.entries).elems[i].text = None
       \/ q.outcome.kind = "throw"
       \/ Len(SelectSeq(q.outcome.text, LAMBDA tok : tok.t # "fence")) # 1
       \/ \E i \in 1 .. Len(q.outcome.text) : q.outcome.text[i].t = "prose"

\* C8: a semanticSearch that fails while building the prompt, calling the model
\* or parsing its output is answered with a success status and the body [].
C8_SearchFailureIsEmpty ==
    \A r \in Conns :
        (Done(r, "semanticSearch") /\ SearchFailed(reqs[r]))
        => (reqs[r].status = 200 /\ reqs[r].result = Arr(<<>>))

\* C8 witness: a search whose candidate list holds an entry without text has
\* been answered.
C8_Witness ==
    \E r \in Conns :
        /\ reqs[r].op = "semanticSearch" /\ reqs[r].pc = "done"
        /\ reqs[r].body.query # <<>>
        /\ reqs[r].body.entries # None
        /\ The(reqs[r].body.entries).t = "arr"
        /\ \E i \in 1 .. Len(The(reqs[r].body.entries).elems) :
              The(reqs[r].body.entries).elems[i].text = None
        /\ reqs[r].status = 200

\* the caller of the arriving request does not own its target
NotOwner(r) ==
    \/ reqs'[r].id \notin DOMAIN store
    \/ store[reqs'[r].id].userId # reqs'[r].caller

Returned(r) == {reqs[r].entries[k].id : k \in 1 .. Len(reqs[r].entries)}
OnlyMood(q) == q.startDate = None /\ q.endDate = None /\ q.search = <<>>

\* the mood buckets as the specification words them, on scores in 1/Unit
InBucket(score, mood) ==
    CASE mood = "happy"   -> score >= 7 * Unit
      [] mood = "neutral" -> 5 * Unit <= score /\ score < 7 * Unit
      [] mood = "sad"     -> score < 5 * Unit
      [] OTHER            -> TRUE
Bucket(caller, mood) ==
    {i \in DOMAIN store : store[i].userId = caller /\ InBucket(store[i].moodScore, mood)}

\* C11: a listing filtered by mood alone matches exactly the caller's entries
\* of that bucket (happy: >= 7, neutral: 5 <= score < 7, sad: < 5, all or
\* absent: every score): it counts all of them, returns none outside them, and
\* returns all of them when one page holds them all.
C11_MoodBuckets ==
    \A r \in Conns :
        (Done(r, "getEntries") /\ OnlyMood(reqs[r].query)) =>
            LET q == reqs[r].query
                bucket == Bucket(reqs[r].caller, q.mood)
            IN  /\ reqs[r].pagination.total = Cardinality(bucket)
                /\ Returned(r) \subseteq bucket
                /\ (q.page = None /\ q.limit = None /\ Cardinality(bucket) <= DefaultLimit)
                      => Returned(r) = bucket

\* C11 witness: a neutral listing returns the caller's entries scored 5 and 6.5
\* and neither the one scored 4.5 nor the one scored 7.
C11_Witness ==
    \E r \in Conns :
        /\ Done(r, "getEntries") /\ OnlyMood(reqs[r].query)
        /\ reqs[r].query.mood = "neutral"
        /\ {reqs[r].entries[k].moodScore : k \in 1 .. Len(reqs[r].entries)} = {10, 13}
        /\ \E i, j \in DOMAIN store :
              /\ store[i].userId = reqs[r].caller /\ store[i].moodScore = 7 * Unit
              /\ store[j].userId = reqs[r].caller /\ store[j].moodScore = 9

\* the page and the limit a query asks for, read as decimal numerals
PageOf(q) == IF q.page = None THEN 1 ELSE DigitsVal(The(q.page))
LimitOf(q) == IF q.limit = None THEN 8 ELSE DigitsVal(The(q.limit))

\* a strictly precedes b in the requested sort mode
Precedes(a, b, sortBy) ==
    CASE sortBy = "oldest"  -> a.createdAt < b.createdAt
      [] sortBy = "highest" -> a.moodScore > b.moodScore
      [] sortBy = "lowest"  -> a.moodScore < b.moodScore
      [] OTHER              -> a.createdAt > b.createdAt

\* e can stand at position pos of the set ids sorted by sortBy: fewer than pos
\* members strictly precede it, and at least pos members do not follow it
CanStandAt(e, pos, ids, sortBy) ==
    /\ Cardinality({i \in ids : Precedes(store[i], e, sortBy)}) < pos
    /\ Cardinality({i \in ids : ~Precedes(e, store[i], sortBy)}) >= pos

\* C12: for page >= 1 and limit >= 1 a listing answers 200 with the elements
\* at positions (page-1)*limit+1 .. page*limit of the caller's filtered entries
\* in sorted order, as far as they exist; a page beyond the last is an empty
\* list (of 21 entries at limit 8, page 3 holds 5 and page 4 holds none).
C12_PageIsSlice ==
    \A r \in Conns :
        (Done(r, "getEntries") /\ OnlyMood(reqs[r].query)) =>
            LET q == reqs[r].query
                ids == Bucket(reqs[r].caller, q.mood)
                n == Cardinality(ids)
                skip == (PageOf(q) - 1) * LimitOf(q)
                es == reqs[r].entries
            IN  /\ reqs[r].status = 200
                /\ Len(es) = IF skip >= n THEN 0
                             ELSE IF n - skip < LimitOf(q) THEN n - skip ELSE LimitOf(q)
                /\ \A k \in 1 .. Len(es) :
                      /\ es[k].id \in ids
                      /\ es[k] = withId(es[k].id, store[es[k].id])
                      /\ CanStandAt(es[k], skip + k, ids, q.sortBy)
                      /\ \A j \in 1 .. Len(es) : j # k => es[j].id # es[k].id
                /\ (n = 21 /\ LimitOf(q) = 8 /\ PageOf(q) = 3) => Len(es) = 5
                /\ (n = 21 /\ LimitOf(q) = 8 /\ PageOf(q) = 4) => Len(es) = 0

\* C12 witness: page 3 at the default limit of a caller's 21 entries, latest
\* first, returns the five oldest.
C12_Witness ==
    \E r \in Conns :
        /\ Done(r, "getEntries") /\ OnlyMood(reqs[r].query)
        /\ reqs[r].query.mood = "" /\ reqs[r].query.sortBy = ""
        /\ reqs[r].query.page = Some(<<"3">>) /\ reqs[r].query.limit = None
        /\ Cardinality(Bucket(reqs[r].caller, "")) = 21
        /\ [k \in 1 .. Len(reqs[r].entries) |-> reqs[r].entries[k].createdAt]
              = <<5, 4, 3, 2, 1>>

\* s contains w, letter case ignored
ContainsCI(s, w) ==
    \E i \in 1 .. (Len(s) - Len(w) + 1) :
        \A k \in 1 .. Len(w) : toLowerCase(s)[i + k - 1] = toLowerCase(w)[k]

\* an entry passes the filters of a query as the specification words them:
\* created on a day from startDate to endDate, in the mood bucket, and with the
\* search term in its text or in a tag
Satisfies(e, q) ==
    /\ q.startDate # None => e.createdAt \div DayLen >= The(q.startDate)
    /\ q.endDate # None => e.createdAt \div DayLen <= The(q.endDate)
    /\ InBucket(e.moodScore, q.mood)
    /\ q.search # <<>> =>
          \/ ContainsCI(e.text, q.search)
          \/ \E t \in 1 .. Len(e.tags) : ContainsCI(e.tags[t], q.search)
Matching(caller, q) ==
    {i \in DOMAIN store : store[i].userId = caller /\ Satisfies(store[i], q)}

\* C13: in every listing response, total is the number of the caller's entries
\* that pass the filters, whatever page and limit are; pages is the least
\* number of pages of size limit that hold total entries (ceil(total/limit));
\* page and limit are the requested values, or 1 and 8, as numbers.
C13_PaginationFields ==
    \A r \in Conns :
        Done(r, "getEntries") =>
            LET q == reqs[r].query
                p == reqs[r].pagination
            IN  /\ p.total = Cardinality(Matching(reqs[r].caller, q))
                /\ p.pages \in Nat
                /\ p.pages * p.limit >= p.total
                /\ (p.pages - 1) * p.limit < p.total
                /\ p.page = PageOf(q)
                /\ p.limit = LimitOf(q)

\* C13 witness: page 3 at limit 2 of 21 entries reports total 21 and 11 pages
\* while it returns two entries.
C13_Witness ==
    \E r \in Conns :
        /\ reqs[r].op = "getEntries" /\ reqs[r].pc = "done"
        /\ reqs[r].query.page = Some(<<"3">>) /\ reqs[r].query.limit = Some(<<"2">>)
        /\ reqs[r].pagination = [total |-> 21, pages |-> 11, page |-> 3, limit |-> 2]
        /\ Len(reqs[r].entries) = 2

\* a listing with default parameters, answered to a user who owns no entry
\* while another user owns some
DefaultQuery(q) ==
    /\ q.page = None /\ q.limit = None /\ q.startDate = None /\ q.endDate = None
    /\ q.mood = "" /\ q.search = <<>> /\ q.sortBy = ""
EmptyHanded(r) ==
    /\ Done(r, "getEntries") /\ DefaultQuery(reqs[r].query)
    /\ \A i \in DOMAIN store : store[i].userId # reqs[r].caller
    /\ DOMAIN store # {}

\* C14 as stated: such a listing returns no entries and the pagination
\* {total: 0, pages: 1, page: 1, limit: 8}.
C14_EmptyListingOnePage ==
    \A r \in Conns :
        EmptyHanded(r) =>
            /\ reqs[r].entries = <<>>
            /\ reqs[r].pagination = [total |-> 0, pages |-> 1, page |-> 1, limit |-> 8]

\* C14 amended: such a listing returns no entries and the pagination
\* {total: 0, pages: 0, page: 1, limit: 8}: there are zero pages of nothing.
C14_EmptyListingNoPage ==
    \A r \in Conns :
        EmptyHanded(r) =>
            /\ reqs[r].status = 200
            /\ reqs[r].entries = <<>>
            /\ reqs[r].pagination = [total |-> 0, pages |-> 0, page |-> 1, limit |-> 8]

\* C14 witness: u1, owning nothing, lists with default parameters while u2
\* owns two entries.
C14_Witness ==
    \E r \in Conns :
        /\ EmptyHanded(r)
        /\ reqs[r].caller = "u1"
        /\ Cardinality({i \in DOMAIN store : store[i].userId = "u2"}) = 2

\* a may stand before b in the requested sort mode
InOrder(a, b, sortBy) ==
    CASE sortBy \in {"", "latest"} -> a.createdAt >= b.createdAt
      [] sortBy = "oldest"         -> a.createdAt <= b.createdAt
      [] sortBy = "highest"        -> a.moodScore >= b.moodScore
      [] sortBy = "lowest"         -> a.moodScore <= b.moodScore

\* two responses to the same caller and query but for consecutive pages
NextPageOf(r, s) ==
    /\ Done(r, "getEntries") /\ Done(s, "getEntries")
    /\ reqs[r].caller = reqs[s].caller
    /\ [reqs[r].query EXCEPT !.page = None] = [reqs[s].query EXCEPT !.page = None]
    /\ PageOf(reqs[s].query) = PageOf(reqs[r].query) + 1

\* C15: a returned page is in the requested order (createdAt non-increasing for
\* latest or no sortBy, non-decreasing for oldest; moodScore non-increasing for
\* highest, non-decreasing for lowest), and the last element of page k never
\* sorts after the first element of page k+1 of the same listing.
C15_SortedBeforePaging ==
    /\ \A r \in Conns2 :
          Done(r, "getEntries") =>
              \A k \in 1 .. (Len(reqs[r].entries) - 1) :
                  InOrder(reqs[r].entries[k], reqs[r].entries[k + 1], reqs[r].query.sortBy)
    /\ \A r, s \in Conns2 :
          (NextPageOf(r, s) /\ reqs[r].entries # <<>> /\ reqs[s].entries # <<>>) =>
              InOrder(reqs[r].entries[Len(reqs[r].entries)], reqs[s].entries[1],
                      reqs[r].query.sortBy)

\* C15 witness: pages 1 and 2 at limit 2, highest first, of entries scored 4.5,
\* 5, 6.5 and 7 hold <<7, 6.5>> and <<5, 4.5>>.
C15_Witness ==
    \E r, s \in Conns2 :
        /\ NextPageOf(r, s)
        /\ reqs[r].query.sortBy = "highest"
        /\ [k \in 1 .. Len(reqs[r].entries) |-> reqs[r].entries[k].moodScore] = <<14, 13>>
        /\ [k \in 1 .. Len(reqs[s].entries) |-> reqs[s].entries[k].moodScore] = <<10, 9>>

\* the save of an update settles with success in this step
Saved(r) ==
    /\ reqs[r].op = "updateEntry" /\ reqs[r].pc = "save"
    /\ reqs'[r].pc = "done" /\ reqs'[r].status = 200
\* the strings of a provided tag list
Strings(tags) == [i \in 1 .. Len(tags) |-> tags[i].s]

\* C16: a successful update by the owner sets each of text, tags and createdAt
\* that the body provides to the provided value, an empty text and an empty
\* tag list included, and leaves every other field as it was.
C16_ProvidedFieldsSet ==
    [][\A r \in Conns :
          Saved(r) =>
              LET b == reqs[r].body
                  old == store[reqs[r].id]
                  new == store'[reqs[r].id]
              IN  /\ new.text = IF b.text # None THEN The(b.text) ELSE old.text
                  /\ new.tags = IF b.tags # None THEN Strings(The(b.tags)) ELSE old.tags
                  /\ new.createdAt = IF b.createdAt # None THEN The(b.createdAt)
                                     ELSE old.createdAt
                  /\ new.userId = old.userId
                  /\ new.moodScore = old.moodScore]_vars

\* C17: the entry a create stores is owned by the authenticated caller and is
\* made of the body's text, the annotation and the server's clock only: a
\* userId, moodScore, tags or createdAt sent in the body appears nowhere in it.
C17_OnlyTextFromBody ==
    \A r \in Conns :
        (Done(r, "createEntry") /\ reqs[r].status = 201) =>
            LET e == The(reqs[r].entry)
                q == reqs[r]
            IN  /\ e.userId = q.caller
                /\ e.text = q.body.text
                /\ e.moodScore = getAiAnalysis(q.body.text, q.outcome).moodScore
                /\ e.tags = Strings(getAiAnalysis(q.body.text, q.outcome).tags)
                /\ e.createdAt \in Clock
                /\ e.id \in DOMAIN store /\ withId(e.id, store[e.id]) = e

\* C17 witness: u1 creates with a body that names u2 as owner and carries a
\* moodScore, tags and a createdAt; the stored entry is u1's and has none of them.
C17_Witness ==
    \E r \in Conns :
        /\ Done(r, "createEntry") /\ reqs[r].status = 201
        /\ reqs[r].caller = "u1" /\ reqs[r].body.userId = Some("u2")
        /\ store[The(reqs[r].entry).id].userId = "u1"
        /\ store[The(reqs[r].entry).id].moodScore # The(reqs[r].body.moodScore)
        /\ store[The(reqs[r].entry).id].tags # Strings(The(reqs[r].body.tags))
        /\ store[The(reqs[r].entry).id].createdAt # The(reqs[r].body.createdAt)

\* C18: a create whose text is missing or empty is answered 400 in the step it
\* arrives, without a call to the external model, and leaves the store as it was.
C18_EmptyTextRejected ==
    [][\A r \in Conns :
          (/\ reqs[r].pc = "idle" /\ reqs'[r].op = "createEntry"
           /\ reqs'[r].body.text = <<>>)
          => /\ reqs'[r].pc = "done" /\ reqs'[r].status = 400
             /\ reqs'[r].called = FALSE
             /\ store' = store /\ nextId' = nextId]_vars

\* C18 witness: a create with an empty text has been answered 400 while an
\* earlier create with a text is stored.
C18_Witness ==
    \E r \in Conns :
        /\ Done(r, "createEntry") /\ reqs[r].body.text = <<>>
        /\ reqs[r].status = 400 /\ ~reqs[r].called
        /\ DOMAIN store # {}

\* a create is waiting for its store write, the annotation in hand
Annotated(r) ==
    /\ reqs[r].op = "createEntry" /\ reqs[r].pc = "store"
    /\ DOMAIN reqs[r].analysis = {"moodScore", "tags"}

\* C19: an entry enters the store only in the step of a create that holds the
\* {moodScore, tags} pair of its annotation, and carries that pair; and a create
\* whose store write fails is answered 500 with nothing added to the store.
C19_AnnotateThenPersist ==
    [][/\ \A id \in DOMAIN store' \ DOMAIN store :
             \E r \in Conns :
                 /\ Annotated(r)
                 /\ reqs'[r].pc = "done" /\ reqs'[r].called
                 /\ store'[id].moodScore = reqs[r].analysis.moodScore
                 /\ store'[id].tags = Strings(reqs[r].analysis.tags)
       /\ \A r \in Conns :
             (Annotated(r) /\ reqs'[r].pc = "done" /\ ~reqs'[r].storeOk)
             => (reqs'[r].status = 500 /\ store' = store /\ nextId' = nextId)]_vars

\* C19 witness: a create was annotated, its store write failed, it has been
\* answered 500 and the store is empty.
C19_Witness ==
    \E r \in Conns :
        /\ Done(r, "createEntry") /\ reqs[r].called /\ ~reqs[r].storeOk
        /\ reqs[r].status = 500 /\ reqs[r].entry = None
        /\ reqs[r].analysis.moodScore = 7 * Unit
        /\ store = <<>>

\* the save of an update settles in this step
Settles(r) ==
    reqs[r].op = "updateEntry" /\ reqs[r].pc = "save" /\ reqs'[r].pc = "done"

\* C20: when updates by the owner on one entry interleave, each completes
\* without a conflict error, and when a save settles after another request's
\* save, every field both bodies provide holds this last save's value.
C20_LastSaveWins ==
    [][\A r \in Conns2 :
          Settles(r) =>
              /\ reqs'[r].status = 200
              /\ \A o \in Conns2 \ {r} :
                    (/\ Done(o, "updateEntry") /\ reqs[o].status = 200
                     /\ reqs[o].id = reqs[r].id)
                    => /\ (reqs[r].body.text # None /\ reqs[o].body.text # None)
                            => store'[reqs[r].id].text = The(reqs[r].body.text)
                       /\ (reqs[r].body.tags # None /\ reqs[o].body.tags # None)
                            => store'[reqs[r].id].tags = Strings(The(reqs[r].body.tags))]_vars

\* the caller's entries that pass one filter of a query taken alone
InDateRange(caller, q) ==
    {i \in DOMAIN store :
        /\ store[i].userId = caller
        /\ q.startDate # None => store[i].createdAt \div DayLen >= The(q.startDate)
        /\ q.endDate # None => store[i].createdAt \div DayLen <= The(q.endDate)}
HasKeyword(caller, q) ==
    {i \in DOMAIN store :
        /\ store[i].userId = caller
        /\ q.search # <<>> =>
              \/ ContainsCI(store[i].text, q.search)
              \/ \E t \in 1 .. Len(store[i].tags) : ContainsCI(store[i].tags[t], q.search)}
AllFilters(caller, q) ==
    InDateRange(caller, q) \cap Bucket(caller, q.mood) \cap HasKeyword(caller, q)

\* C21: the entries a listing matches are the intersection of the caller's
\* entries in the date range, in the mood bucket, and with the search term
\* contained in the text or in a tag (case ignored): the total counts that
\* intersection, nothing outside it is returned, and all of it is returned when
\* one page holds it.
C21_FiltersIntersect ==
    \A r \in Conns :
        Done(r, "getEntries") =>
            LET all == AllFilters(reqs[r].caller, reqs[r].query)
            IN  /\ Returned(r) \subseteq all
                /\ reqs[r].pagination.total = Cardinality(all)
                /\ (/\ reqs[r].query.page = None /\ reqs[r].query.limit = None
                    /\ Cardinality(all) <= DefaultLimit) => Returned(r) = all


\* C22: as long as an entry is stored, its id, its owner and its moodScore are
\* the ones of its creation, whatever is edited; an entry leaves the store only
\* in the deleteOne step of a delete request of its owner, answered 200; and
\* no id is given twice.
C22_IdentityAndLifecycle ==
    [][/\ \A id \in DOMAIN store \cap DOMAIN store' :
             /\ store'[id].userId = store[id].userId
             /\ store'[id].moodScore = store[id].moodScore
       /\ \A id \in DOMAIN store \ DOMAIN store' :
             \E r \in Conns :
                 /\ reqs[r].op = "deleteEntry" /\ reqs[r].pc = "delete"
                 /\ reqs[r].id = id /\ reqs[r].caller = store[id].userId
                 /\ reqs'[r].pc = "done" /\ reqs'[r].status = 200
       /\ \A id \in DOMAIN store' \ DOMAIN store : id = nextId /\ nextId' > id
       /\ nextId' >= nextId]_vars

\* C22 witness: an entry scored 7 at creation has had its text and createdAt
\* edited, by a request that also sent a moodScore, and is still scored 7; an
\* earlier entry has been deleted.
C22_Witness ==
    \E r \in Conns :
        /\ Done(r, "updateEntry") /\ reqs[r].status = 200
        /\ reqs[r].body.moodScore # None
        /\ store[reqs[r].id].text = T_work
        /\ store[reqs[r].id].moodScore = 7 * Unit
        /\ \E j \in 1 .. (nextId - 1) : j \notin DOMAIN store

\* the tags value of the JSON a reply carries (None when the key is missing)
RepliedTags(outcome) == tagsKey(The(jsonParse(cleanJson(outcome.text))))

\* C23: the tags of every annotation, of createEntry and of analyzeEntry, are a
\* sequence of at most 5 elements; when the model's JSON carries an array of
\* tags they are its first 5 elements, and when it carries no tags or tags that
\* are not an array they are the single tag "general".
C23_TagsAreShortSequence ==
    \A r \in Conns :
        "analysis" \in DOMAIN reqs[r] =>
            LET tags == reqs[r].analysis.tags
                o == reqs[r].outcome
            IN  /\ DOMAIN tags = 1 .. Cardinality(DOMAIN tags)
                /\ Cardinality(DOMAIN tags) <= 5
                /\ analysisSucceeds(o) =>
                      IF RepliedTags(o) # None /\ The(RepliedTags(o)).t = "arr"
                      THEN LET given == The(RepliedTags(o)).elems
                           IN  tags = [i \in 1 .. (IF Len(given) < 5 THEN Len(given) ELSE 5)
                                          |-> given[i]]
                      ELSE tags = <<Str(<<"g","e","n","e","r","a","l">>)>>

\* C23 witness: the model replied six tags and the annotation holds five of
\* them; and (in another request) it replied the scalar tag "work" and the
\* annotation holds the default tag.
C23_Witness ==
    \E r \in Conns :
        /\ "analysis" \in DOMAIN reqs[r]
        /\ reqs[r].outcome = ReplyTooHigh
        /\ Len(reqs[r].analysis.tags) = 5
        /\ store # <<>>
        /\ \E i \in DOMAIN store : store[i].tags = <<W_general>>

\* the ids of the candidates submitted with a search request
CandidateIds(q) ==
    {The(q.body.entries).elems[i].id : i \in 1 .. Len(The(q.body.entries).elems)}

\* C24: every success response of semanticSearch is an array of ids, each the
\* id of one of the candidates submitted in the request, whatever JSON the
\* external model returned.
C24_ResultIsCandidateIds ==
    \A r \in Conns :
        (Done(r, "semanticSearch") /\ reqs[r].status = 200)
        => /\ reqs[r].result.t = "arr"
           /\ \A i \in 1 .. Len(reqs[r].result.elems) :
                 reqs[r].result.elems[i] \in CandidateIds(reqs[r])

\* the response of the search sent over r reaches the component in this step
SearchArrives(r) ==
    /\ r \in DOMAIN app.sent
    /\ app.sent[r].kind = "search"
    /\ r \notin DOMAIN app'.sent

\* the identifier of a listed entry as JSON
IdOf(entry) == Str(numStr(entry.id))

\* C25: once semantic search has returned an array of ids for the current
\* search text, every displayed entry has its id in that array and satisfies
\* the other active filters.
C25_DisplayIntersectsIds ==
    [][\A r \in Conns2 :
          (/\ SearchArrives(r)
           /\ app.sent[r].body.query = app'.searchQuery
           /\ app'.aiFilteredIds.t = "arr")
          => \A k \in 1 .. Len(app'.entries) :
                /\ \E i \in 1 .. Len(app'.aiFilteredIds.elems) :
                      app'.aiFilteredIds.elems[i] = IdOf(app'.entries[k])
                /\ matches(store[app'.entries[k].id], ClientUser,
                           [clientQuery(app') EXCEPT !.search = <<>>])]_vars

\* the sort key of sortBy has the same value in two of the entries ids
TiesOn(ids, sortBy) ==
    \E i, j \in ids :
        /\ i # j
        /\ ~Precedes(store[i], store[j], sortBy)
        /\ ~Precedes(store[j], store[i], sortBy)

\* C26: on an unchanging collection, pages 1 .. pagination.pages of one
\* listing (same caller, filter, sort mode and limit) together hold every
\* matching entry exactly once, also when entries tie on the sort key.
C26_PagesPartition ==
    \A r, s \in Conns2 :
        (/\ NextPageOf(r, s)
         /\ PageOf(reqs[r].query) = 1
         /\ reqs[r].pagination.pages = 2)
        => /\ Returned(r) \cap Returned(s) = {}
           /\ Returned(r) \cup Returned(s) = Matching(reqs[r].caller, reqs[r].query)

\* the same for listings whose sort key is distinct in all matching entries
C26_PagesPartitionNoTies ==
    \A r, s \in Conns2 :
        (/\ NextPageOf(r, s)
         /\ PageOf(reqs[r].query) = 1
         /\ reqs[r].pagination.pages = 2
         /\ ~TiesOn(Matching(reqs[r].caller, reqs[r].query), reqs[r].query.sortBy))
        => /\ Returned(r) \cap Returned(s) = {}
           /\ Returned(r) \cup Returned(s) = Matching(reqs[r].caller, reqs[r].query)

\* C27: in every listing response the number of returned entries is at most
\* max(0, total - (page - 1) * limit) for the reported total, page and limit,
\* also when a create or delete of the same user falls between the count and
\* the find of that request.
C27_PageWithinTotal ==
    \A r \in Conns2 :
        Done(r, "getEntries") =>
            LET p == reqs[r].pagination
                rest == p.total - (p.page - 1) * p.limit
            IN  Len(reqs[r].entries) <= IF rest < 0 THEN 0 ELSE rest

\* C28: after any sequence of filter changes, page clicks and completed loads
\* currentPage is within 1 .. totalPages.
C28_PageWithinPages ==
    app.currentPage >= 1 /\ app.currentPage <= app.totalPages

\* the pages the server can answer to query q of the user on the collection
\* as it is
ServerPages(q) ==
    LET found == {i \in DOMAIN store : matches(store[i], ClientUser, q)}
        skip == (PageOf(q) - 1) * LimitOf(q)
        n == Cardinality(found) - skip
        len == IF n < 0 THEN 0 ELSE IF n < LimitOf(q) THEN n ELSE LimitOf(q)
    IN  {[k \in 1 .. len |-> withId(order[skip + k], store[order[skip + k]])] :
            order \in sortedOrders(found, q.sortBy)}

\* the list shows the server's result for the parameters now set
ShowsCurrent == displayEntries \in ServerPages(clientQuery(app))

\* C29: once the user stops changing the parameters (mood, search text, date
\* range, sort, page), the displayed list eventually equals the server's
\* result for the final parameters and stays so, also while the search text
\* is longer than 3 characters and a search result is set.
C29_EventuallyShowsCurrent == <>[]ShowsCurrent
\* the response to the request sent over r reaches the component in this step
Arriving(r) == r \in DOMAIN app.sent /\ r \notin DOMAIN app'.sent

\* C30: a response that arrives after the response to a later request of the
\* same kind has been applied never overwrites the newer result: a late fetch
\* response leaves entries and totalPages as they are, a late search response
\* leaves aiFilteredIds as it is.
C30_NoStaleOverwrite ==
    [][\A r \in Conns2 :
          Arriving(r) =>
              IF app.sent[r].kind = "fetch"
              THEN app.sent[r].seq < app.shown
                      => (app'.entries = app.entries /\ app'.totalPages = app.totalPages)
              ELSE app.sent[r].seq < app.shownIds
                      => app'.aiFilteredIds = app.aiFilteredIds]_vars
====
